---- MODULE Spec2Model ----
(***************************************************************************)
(* Model of the cachet persistent cache engine (src/src/cache.ts, class    *)
(* Cache): the user and emoji tables with per-record expiration, the       *)
(* touch-to-refresh read path, the background user update queue, the       *)
(* bucketed request analytics and the memo cache of analytics reports.     *)
(*                                                                         *)
(* Time is Date.now(), in milliseconds.  Strings that the code             *)
(* case-normalises are sequences of characters, so that toUpperCase /      *)
(* toLowerCase are real conversions.  A SQL table is a set of rows; UNIQUE *)
(* columns are enforced only by what the statements do.                    *)
(***************************************************************************)
EXTENDS Integers, Sequences, FiniteSets, TLC

VARIABLES
    now,                \* Date.now(), in milliseconds
    uuid,               \* number of crypto.randomUUID() values handed out
    users,              \* rows of table users
    emojis,             \* rows of table emojis
    userUpdateQueue,    \* Set<string>, in insertion order
    isProcessingQueue,  \* boolean guard of the drain
    slackWrapper,       \* TRUE once setSlackWrapper has injected the provider
    drains,             \* activations of processUserUpdateQueue past their guard
    ticks,              \* number of setInterval ticks so far
    upstreamCalls,      \* number of getUserInfo calls issued by drains
    dropped,            \* ids whose refresh failed and that no read re-enqueued since
    ret,                \* the last Cache method call: operation, arguments, result
                        \* (for getUser also whether the id was pending at the call)
    traffic10min,       \* rows of table traffic_10min
    trafficHourly,      \* rows of table traffic_hourly
    trafficDaily,       \* rows of table traffic_daily
    userAgentStats,     \* rows of table user_agent_stats
    memo,               \* AnalyticsCache.cache: the Map's entries in insertion order
    requests,           \* number of recordRequest calls so far
    pc,                 \* the process: "down", "pass" (inside the constructor, in
                        \* the loop of MigrationManager.runMigrations) or "serving"
    build,              \* version of package.json of the running build
    migrations,         \* rows of table migrations, in id order
    requestAnalytics,   \* table request_analytics of the releases before 0.4.0
    pass,               \* locals of MigrationManager.runMigrations
    passResult,         \* what the last MigrationManager.runMigrations returned
    upLog,              \* every call of a migration's up so far, in order
    starts,             \* number of process starts so far
    request,            \* the request inside withAnalytics: its handler's position and locals
    response            \* what the wrapper returned for the latest request

vars == <<now, uuid, users, emojis, userUpdateQueue, isProcessingQueue,
          slackWrapper, drains, ticks, upstreamCalls, dropped, ret,
          traffic10min, trafficHourly, trafficDaily, userAgentStats, memo, requests,
          pc, build, migrations, requestAnalytics, pass, passResult, upLog, starts,
          request, response>>

analyticsVars == <<traffic10min, trafficHourly, trafficDaily, userAgentStats, memo,
                   requests>>

startupVars == <<pc, build, migrations, requestAnalytics, pass, passResult, upLog, starts>>

wrapperVars == <<request, response>>

----------------------------------------------------------------------------
(* Bounds of the model *)
MaxTime == 3
MaxUuid == 3
MaxTicks == 2
MaxRequests == 3

(* Program constants; durations in milliseconds *)
HourMs == 3600000               \* the factor of expirationHours
Day == 24 * 60 * 60 * 1000
UserTTL == 7 * 24 * 60 * 60 * 1000
StaleThreshold == 24 * 60 * 60 * 1000
userDefaultTTL == 7 * 24        \* hours
DefaultExpiration == 24         \* hours: defaultExpirationHours
QueueBatch == 3

----------------------------------------------------------------------------
(* Strings and case conversion *)
UpperChar(c) ==
    CASE c = "a" -> "A" [] c = "b" -> "B" [] c = "c" -> "C" [] c = "d" -> "D"
      [] c = "u" -> "U" [] c = "x" -> "X" [] c = "y" -> "Y"
      [] OTHER -> c

LowerChar(c) ==
    CASE c = "A" -> "a" [] c = "B" -> "b" [] c = "C" -> "c" [] c = "D" -> "d"
      [] c = "U" -> "u" [] c = "X" -> "x" [] c = "Y" -> "y"
      [] OTHER -> c

toUpperCase(s) == [i \in DOMAIN s |-> UpperChar(s[i])]
toLowerCase(s) == [i \in DOMAIN s |-> LowerChar(s[i])]

Range(s) == {s[i] : i \in DOMAIN s}

NULL == [type |-> "null"]
Bool(b) == [type |-> "bool", v |-> b]

----------------------------------------------------------------------------
(* Inputs *)
UserIdInputs == {<<"U", "A">>, <<"u", "a">>, <<"U", "B">>}
Profiles == {[displayName |-> "d1", pronouns |-> "p1", imageUrl |-> "i1"],
             [displayName |-> "d2", pronouns |-> "p2", imageUrl |-> "i2"]}
\* expirationHours: 0 stands for an omitted (or zero) argument, both falsy
TtlInputs == {0, 24}

----------------------------------------------------------------------------
(* Table users *)
UserRow(id, userId, displayName, pronouns, imageUrl, expiration) ==
    [id |-> id, userId |-> userId, displayName |-> displayName,
     pronouns |-> pronouns, imageUrl |-> imageUrl, expiration |-> expiration]

\* SELECT * FROM users WHERE userId = key
SelectUser(table, key) == {r \in table : r.userId = key}

\* INSERT ... ON CONFLICT(userId) DO UPDATE SET imageUrl = ?, expiration = ?
UpsertUser(table, row) ==
    IF SelectUser(table, row.userId) # {}
    THEN {IF r.userId = row.userId
          THEN [r EXCEPT !.imageUrl = row.imageUrl, !.expiration = row.expiration]
          ELSE r : r \in table}
    ELSE table \cup {row}

\* insertUser storing the identifier as given, without normalising it
insertUserTableRaw(table, id, userId, profile, expirationHours) ==
    LET expiration == now + (IF expirationHours # 0 THEN expirationHours
                             ELSE userDefaultTTL) * HourMs
    IN UpsertUser(table, UserRow(id, userId, profile.displayName,
                                 profile.pronouns, profile.imageUrl, expiration))

\* the table after Cache.insertUser(userId, displayName, pronouns, imageUrl, expirationHours)
insertUserTable(table, id, userId, profile, expirationHours) ==
    LET expiration == now + (IF expirationHours # 0 THEN expirationHours
                             ELSE userDefaultTTL) * HourMs
    IN UpsertUser(table, UserRow(id, toUpperCase(userId), profile.displayName,
                                 profile.pronouns, profile.imageUrl, expiration))

\* a pending list instead of a pending set
queueUserUpdateList(queue, userId) == Append(queue, toUpperCase(userId))

\* this.userUpdateQueue.add(userId.toUpperCase())
queueUserUpdate(queue, userId) ==
    IF toUpperCase(userId) \in Range(queue) THEN queue
    ELSE Append(queue, toUpperCase(userId))

\* this.userUpdateQueue.delete(userId)
QueueDelete(queue, userId) == SelectSeq(queue, LAMBDA q : q # userId)

\* no request is inside the wrapper; no response has been returned
NoRequest == [pc |-> "idle"]
NoResponse == [type |-> "none"]

\* no call of runMigrations is in progress
\* (rerun: the pass runs the build whose last pass returned success)
NoPass == [i |-> 0, lastAppliedVersion |-> <<>>, migrationsApplied |-> 0, rerun |-> FALSE]

\* the process is past its startup: build 0.4.1 started on a new database file,
\* the pass recorded the virtual migration 0.4.0 and applied nothing
InitStarted ==
    /\ pc = "serving"
    /\ build = <<0, 4, 1>>
    /\ migrations = <<[version |-> <<0, 4, 0>>, applied_at |-> 0, description |-> "virtual"]>>
    /\ requestAnalytics = [exists |-> FALSE, rows |-> {}]
    /\ pass = NoPass
    /\ passResult = [success |-> TRUE, migrationsApplied |-> 0,
                     lastAppliedVersion |-> <<0, 4, 0>>]
    /\ upLog = <<>>
    /\ starts = 1
    /\ request = NoRequest
    /\ response = NoResponse

----------------------------------------------------------------------------
\* the analytics tables of a fresh database and the memo cache after construction
InitAnalytics ==
    /\ traffic10min = {}
    /\ trafficHourly = {}
    /\ trafficDaily = {}
    /\ userAgentStats = {}
    /\ memo = <<>>
    /\ requests = 0

Init ==
    /\ now = 0
    /\ uuid = 0
    /\ users = {}
    /\ emojis = {}
    /\ userUpdateQueue = <<>>
    /\ isProcessingQueue = FALSE
    /\ slackWrapper = FALSE
    /\ drains = <<>>
    /\ ticks = 0
    /\ upstreamCalls = 0
    /\ dropped = {}
    /\ ret = [op |-> "none"]
    /\ InitStarted
    /\ InitAnalytics

\* the clock advances by a day
Tick ==
    /\ now < MaxTime * Day
    /\ now' = now + Day
    /\ UNCHANGED <<wrapperVars, startupVars, analyticsVars, uuid, users, emojis, userUpdateQueue,
                   isProcessingQueue, slackWrapper, drains, ticks, upstreamCalls,
                   dropped, ret>>

\* Cache.insertUser
insertUserCall(userId, profile, expirationHours) ==
    /\ uuid < MaxUuid
    /\ uuid' = uuid + 1
    /\ users' = insertUserTable(users, uuid + 1, userId, profile, expirationHours)
    /\ ret' = [op |-> "insertUser", userId |-> userId, profile |-> profile,
               expirationHours |-> expirationHours,
               fresh |-> SelectUser(users, toUpperCase(userId)) = {},
               val |-> Bool(TRUE)]
    /\ UNCHANGED <<startupVars, analyticsVars, now, emojis, userUpdateQueue, isProcessingQueue, slackWrapper,
                   drains, ticks, upstreamCalls, dropped>>

\* Cache.insertUser called outside the wrapped handlers
insertUser(userId, profile, expirationHours) ==
    /\ insertUserCall(userId, profile, expirationHours)
    /\ UNCHANGED wrapperVars

\* the query with the identifier as given
getUserLookupRaw(userId) == SelectUser(users, userId)

\* getUser's query: SELECT * FROM users WHERE userId = ?  [userId.toUpperCase()]
getUserLookup(userId) == SelectUser(users, toUpperCase(userId))

\* getUser's removal of an expired row: DELETE FROM users WHERE userId = ?  [userId]
getUserDelete(userId) == users \ SelectUser(users, userId)

\* getUser's touch: UPDATE users SET expiration = ? WHERE userId = ?
getUserTouch(userId) ==
    {IF r.userId = toUpperCase(userId) THEN [r EXCEPT !.expiration = now + UserTTL]
     ELSE r : r \in users}

\* the record getUser hands back for row r
UserVal(r) == [type |-> "user", id |-> r.id, userId |-> r.userId,
               displayName |-> r.displayName, pronouns |-> r.pronouns,
               imageUrl |-> r.imageUrl, expiration |-> r.expiration]

\* Cache.getUser
getUserCall(userId) ==
    LET result == getUserLookup(userId) IN
    IF result = {}
    THEN /\ ret' = [op |-> "getUser", userId |-> userId, val |-> NULL,
                    pending |-> toUpperCase(userId) \in Range(userUpdateQueue)]
         /\ UNCHANGED <<startupVars, analyticsVars, now, uuid, users, emojis, userUpdateQueue, isProcessingQueue,
                        slackWrapper, drains, ticks, upstreamCalls, dropped>>
    ELSE \E row \in result :
         IF row.expiration < now
         THEN \* DELETE FROM users WHERE userId = ?  [userId]
              /\ users' = getUserDelete(userId)
              /\ ret' = [op |-> "getUser", userId |-> userId, val |-> NULL,
                    pending |-> toUpperCase(userId) \in Range(userUpdateQueue)]
              /\ UNCHANGED <<startupVars, analyticsVars, now, uuid, emojis, userUpdateQueue, isProcessingQueue,
                             slackWrapper, drains, ticks, upstreamCalls, dropped>>
         ELSE LET twentyFourHoursAgo == now - StaleThreshold
                  userAge == row.expiration - UserTTL
                  val == UserVal(row)
              IN /\ ret' = [op |-> "getUser", userId |-> userId, val |-> val,
                            pending |-> toUpperCase(userId) \in Range(userUpdateQueue)]
                 /\ IF userAge < twentyFourHoursAgo
                    THEN /\ users' = getUserTouch(userId)
                         /\ userUpdateQueue' = queueUserUpdate(userUpdateQueue, userId)
                         /\ dropped' = dropped \ {toUpperCase(userId)}
                    ELSE UNCHANGED <<users, userUpdateQueue, dropped>>
                 /\ UNCHANGED <<startupVars, analyticsVars, now, uuid, emojis, isProcessingQueue, slackWrapper,
                                drains, ticks, upstreamCalls>>

\* Cache.getUser called outside the wrapped handlers
getUser(userId) ==
    /\ getUserCall(userId)
    /\ UNCHANGED wrapperVars

\* Cache.purgeUserCache
purgeUserCache(userId) ==
    LET gone == SelectUser(users, toUpperCase(userId)) IN
    /\ users' = users \ gone
    /\ ret' = [op |-> "purgeUserCache", userId |-> userId, val |-> Bool(gone # {})]
    /\ UNCHANGED <<wrapperVars, startupVars, analyticsVars, now, uuid, emojis, userUpdateQueue, isProcessingQueue, slackWrapper,
                   drains, ticks, upstreamCalls, dropped>>

\* Cache.purgeAll; the onEmojiExpired callback it triggers refills the emojis
\* through a later batchInsertEmojis call
purgeAll ==
    /\ users' = {}
    /\ emojis' = {}
    /\ ret' = [op |-> "purgeAll", users |-> Cardinality(users),
               emojis |-> Cardinality(emojis)]
    /\ UNCHANGED <<wrapperVars, startupVars, analyticsVars, now, uuid, userUpdateQueue, isProcessingQueue, slackWrapper,
                   drains, ticks, upstreamCalls, dropped>>

\* JavaScript's a % b for b > 0: the remainder has the sign of a
JsRem(a, b) == IF a >= 0 THEN a % b ELSE 0 - ((0 - a) % b)

\* Math.floor(Date.now() / 1000)
NowSec == now \div 1000

\* a cutoff that is not aligned to the 10-minute grid
cleanupBucketUnaligned == NowSec - 86400

\* a cutoff at the current 10-minute bucket
cleanupBucketNow == NowSec - JsRem(NowSec, 600)

\* purgeExpiredItems' cutoff for the 10-minute table, in seconds
cleanupBucket ==
    LET oneDayAgoSec == NowSec - 86400
    IN oneDayAgoSec - JsRem(oneDayAgoSec, 600)

\* Cache.purgeExpiredItems: expired emojis (users are not purged here) and
\* 10-minute buckets older than 24 hours
purgeExpiredItems ==
    LET gone == {r \in emojis : r.expiration < now} IN
    /\ emojis' = emojis \ gone
    /\ traffic10min' = {r \in traffic10min : ~(r.bucket < cleanupBucket)}
    /\ ret' = [op |-> "purgeExpiredItems", val |-> Cardinality(gone)]
    /\ UNCHANGED <<wrapperVars, startupVars, trafficHourly, trafficDaily, userAgentStats, memo, requests, now,
                   uuid, users, userUpdateQueue, isProcessingQueue, slackWrapper,
                   drains, ticks, upstreamCalls, dropped>>

----------------------------------------------------------------------------
(* Background user update queue *)

\* Cache.setSlackWrapper
setSlackWrapper ==
    /\ ~slackWrapper
    /\ slackWrapper' = TRUE
    /\ UNCHANGED <<wrapperVars, startupVars, analyticsVars, now, uuid, users, emojis, userUpdateQueue, isProcessingQueue,
                   drains, ticks, upstreamCalls, dropped, ret>>

\* a drain that takes the whole pending set
SliceAll(queue, n) == queue

\* Array.from(this.userUpdateQueue).slice(0, 3)
Slice(queue, n) == SubSeq(queue, 1, IF Len(queue) < n THEN Len(queue) ELSE n)

\* a guard that does not test the in-progress flag
QueueGuardNoFlag == Len(userUpdateQueue) = 0 \/ ~slackWrapper

\* the guard at the head of processUserUpdateQueue: TRUE when the tick returns at once
QueueGuard == isProcessingQueue \/ Len(userUpdateQueue) = 0 \/ ~slackWrapper

\* a setInterval tick: processUserUpdateQueue up to its first await
processUserUpdateQueue ==
    /\ ticks < MaxTicks
    /\ ticks' = ticks + 1
    /\ ret' = [op |-> "processUserUpdateQueue", val |-> Bool(~QueueGuard)]
    /\ IF QueueGuard
       THEN UNCHANGED <<isProcessingQueue, drains, upstreamCalls>>
       ELSE /\ isProcessingQueue' = TRUE
            /\ drains' = Append(drains, [usersToUpdate |-> Slice(userUpdateQueue, QueueBatch),
                                         i |-> 1, pc |-> "getUserInfo", calls |-> 1])
            /\ upstreamCalls' = upstreamCalls + 1
    /\ UNCHANGED <<wrapperVars, startupVars, analyticsVars, now, uuid, users, emojis, userUpdateQueue, slackWrapper, dropped>>

RemoveAt(s, k) == [j \in 1..(Len(s) - 1) |-> IF j < k THEN s[j] ELSE s[j + 1]]

\* a drain without its finally block: the flag stays set after the last user
DrainAdvanceNoFinally(k) ==
    LET d == drains[k] IN
    IF d.i < Len(d.usersToUpdate)
    THEN /\ drains' = [drains EXCEPT ![k] = [d EXCEPT !.i = d.i + 1,
                                                     !.pc = "getUserInfo",
                                                     !.calls = d.calls + 1]]
         /\ upstreamCalls' = upstreamCalls + 1
         /\ UNCHANGED isProcessingQueue
    ELSE /\ drains' = RemoveAt(drains, k)
         /\ UNCHANGED <<isProcessingQueue, upstreamCalls>>

\* the loop of drain k moves past its current user: the next getUserInfo call,
\* or the finally block after the last user
DrainAdvance(k) ==
    LET d == drains[k] IN
    IF d.i < Len(d.usersToUpdate)
    THEN /\ drains' = [drains EXCEPT ![k] = [d EXCEPT !.i = d.i + 1,
                                                     !.pc = "getUserInfo",
                                                     !.calls = d.calls + 1]]
         /\ upstreamCalls' = upstreamCalls + 1
         /\ UNCHANGED isProcessingQueue
    ELSE /\ drains' = RemoveAt(drains, k)
         /\ isProcessingQueue' = FALSE
         /\ UNCHANGED upstreamCalls

\* getUserInfo resolves with the profile of the user asked for (slackUser.id is
\* that user's id): the drain writes it back through insertUser
DrainFetched(k, profile) ==
    /\ k \in DOMAIN drains
    /\ drains[k].pc = "getUserInfo"
    /\ uuid < MaxUuid
    /\ LET d == drains[k]
           userId == d.usersToUpdate[d.i]
       IN /\ uuid' = uuid + 1
          /\ users' = insertUserTable(users, uuid + 1, userId, profile, 0)
          /\ drains' = [drains EXCEPT ![k] = [d EXCEPT !.pc = "insertUser"]]
          /\ ret' = [op |-> "insertUser", userId |-> userId, profile |-> profile,
                     fresh |-> SelectUser(users, toUpperCase(userId)) = {},
                     val |-> Bool(TRUE)]
    /\ UNCHANGED <<wrapperVars, startupVars, analyticsVars, now, emojis, userUpdateQueue, isProcessingQueue, slackWrapper,
                   ticks, upstreamCalls, dropped>>

\* the awaited insertUser has returned: remove from queue after successful update
DrainInserted(k) ==
    /\ k \in DOMAIN drains
    /\ drains[k].pc = "insertUser"
    /\ LET d == drains[k] IN
       userUpdateQueue' = QueueDelete(userUpdateQueue, d.usersToUpdate[d.i])
    /\ DrainAdvance(k)
    /\ UNCHANGED <<wrapperVars, startupVars, analyticsVars, now, uuid, users, emojis, slackWrapper, ticks, dropped, ret>>

\* a catch block that leaves the failed identifier pending
FailedKeep(queue, userId) == queue

\* what the catch block does to the queue
FailedDelete(queue, userId) == QueueDelete(queue, userId)

\* getUserInfo rejects (user_not_found or any other error): the catch block
DrainFailed(k, error) ==
    /\ k \in DOMAIN drains
    /\ drains[k].pc = "getUserInfo"
    /\ LET d == drains[k] IN
       /\ userUpdateQueue' = FailedDelete(userUpdateQueue, d.usersToUpdate[d.i])
       /\ dropped' = dropped \cup {d.usersToUpdate[d.i]}
    /\ DrainAdvance(k)
    /\ UNCHANGED <<wrapperVars, startupVars, analyticsVars, now, uuid, users, emojis, slackWrapper, ticks, ret>>

FetchErrors == {"user_not_found", "error"}

----------------------------------------------------------------------------
(* Table emojis *)
EmojiRow(id, name, alias, imageUrl, expiration) ==
    [id |-> id, name |-> name, alias |-> alias, imageUrl |-> imageUrl,
     expiration |-> expiration]

\* an insert that first empties the table
ReplaceEmojis(table, row) == {row}

\* INSERT ... ON CONFLICT(name) DO UPDATE SET imageUrl = ?, expiration = ?
UpsertEmoji(table, row) ==
    IF \E r \in table : r.name = row.name
    THEN {IF r.name = row.name
          THEN [r EXCEPT !.imageUrl = row.imageUrl, !.expiration = row.expiration]
          ELSE r : r \in table}
    ELSE table \cup {row}

\* expirationHours || this.defaultExpiration
EmojiExpiration(expirationHours) ==
    now + (IF expirationHours # 0 THEN expirationHours ELSE DefaultExpiration) * HourMs

\* the row one emoji entry is stored as; a null alias is the empty sequence,
\* which is also what alias?.toLowerCase() || null makes of an empty alias
EntryRow(id, entry, expiration) ==
    EmojiRow(id, toLowerCase(entry.name), toLowerCase(entry.alias), entry.imageUrl,
             expiration)

\* Cache.insertEmoji
insertEmoji(entry, expirationHours) ==
    /\ uuid < MaxUuid
    /\ uuid' = uuid + 1
    /\ IF entry.wellFormed
       THEN emojis' = UpsertEmoji(emojis, EntryRow(uuid + 1, entry,
                                                   EmojiExpiration(expirationHours)))
       ELSE UNCHANGED emojis   \* name.toLowerCase() throws inside the try block
    /\ ret' = [op |-> "insertEmoji", entry |-> entry, val |-> Bool(entry.wellFormed)]
    /\ UNCHANGED <<wrapperVars, startupVars, analyticsVars, now, users, userUpdateQueue, isProcessingQueue, slackWrapper,
                   drains, ticks, upstreamCalls, dropped>>

\* the body of the transaction in batchInsertEmojis, from entry i on: the table
\* written so far and whether an entry threw (emoji.name.toLowerCase() on an
\* entry without a name)
RECURSIVE BatchBody(_, _, _, _, _)
BatchBody(table, entries, i, id, expiration) ==
    IF i > Len(entries) THEN [table |-> table, threw |-> FALSE]
    ELSE IF ~entries[i].wellFormed THEN [table |-> table, threw |-> TRUE]
    ELSE BatchBody(UpsertEmoji(table, EntryRow(id + i, entries[i], expiration)),
                   entries, i + 1, id, expiration)

\* the batch run outside a transaction: what was written before the throw stays
NoRollback(table, body) == body.table

\* this.db.transaction(() => {...})(): commit, or roll back when the body throws
Transaction(table, body) == IF body.threw THEN table ELSE body.table

\* crypto.randomUUID() calls made by the batch: one per entry up to the one that throws
RECURSIVE BatchUuids(_, _)
BatchUuids(entries, i) ==
    IF i > Len(entries) THEN 0
    ELSE IF ~entries[i].wellFormed THEN 1
    ELSE 1 + BatchUuids(entries, i + 1)

\* Cache.batchInsertEmojis
batchInsertEmojis(entries, expirationHours) ==
    LET body == BatchBody(emojis, entries, 1, uuid, EmojiExpiration(expirationHours)) IN
    /\ uuid + BatchUuids(entries, 1) <= MaxUuid
    /\ uuid' = uuid + BatchUuids(entries, 1)
    /\ emojis' = Transaction(emojis, body)
    /\ ret' = [op |-> "batchInsertEmojis", entries |-> entries, val |-> Bool(~body.threw)]
    /\ UNCHANGED <<wrapperVars, startupVars, analyticsVars, now, users, userUpdateQueue, isProcessingQueue, slackWrapper,
                   drains, ticks, upstreamCalls, dropped>>

EmojiVal(r) == [type |-> "emoji", id |-> r.id, name |-> r.name, alias |-> r.alias,
                imageUrl |-> r.imageUrl, expiration |-> r.expiration]

\* the query without its expiration filter
getEmojiLookupAny(name) == {r \in emojis : r.name = toLowerCase(name)}

\* getEmoji's query: SELECT * FROM emojis WHERE name = ? AND expiration > ?
getEmojiLookup(name) ==
    {r \in emojis : r.name = toLowerCase(name) /\ r.expiration > now}

getEmoji(name) ==
    LET result == getEmojiLookup(name) IN
    /\ IF result = {}
       THEN ret' = [op |-> "getEmoji", name |-> name, val |-> NULL]
       ELSE \E r \in result : ret' = [op |-> "getEmoji", name |-> name, val |-> EmojiVal(r)]
    /\ UNCHANGED <<wrapperVars, startupVars, analyticsVars, now, uuid, users, emojis, userUpdateQueue, isProcessingQueue,
                   slackWrapper, drains, ticks, upstreamCalls, dropped>>

\* listEmojis' query: SELECT * FROM emojis WHERE expiration > ?  [Date.now()]
listEmojisQuery(table) == {e \in table : e.expiration > now}

\* Cache.listEmojis
listEmojis ==
    /\ ret' = [op |-> "listEmojis", val |-> {EmojiVal(r) : r \in listEmojisQuery(emojis)}]
    /\ UNCHANGED <<wrapperVars, startupVars, analyticsVars, now, uuid, users, emojis, userUpdateQueue, isProcessingQueue,
                   slackWrapper, drains, ticks, upstreamCalls, dropped>>

----------------------------------------------------------------------------
(* Store-level failures: a call made while the database rejects statements
   (closed, locked, disk error), so that the first this.db.run / this.db.query
   of the call throws *)

\* an exception that leaves the method
Throw == [type |-> "throw"]

\* try { return body } catch (error) { return fallback }
TryCatch(body, fallback) == IF body = Throw THEN fallback ELSE body

\* the first statement of the call throws
DbThrows == Throw

\* what every failing call leaves alone
FailedCallUnchanged ==
    UNCHANGED <<wrapperVars, startupVars, analyticsVars, now, users, emojis, userUpdateQueue, isProcessingQueue,
                slackWrapper, drains, ticks, upstreamCalls, dropped>>

\* Cache.insertUser: the id is drawn before the try block, the INSERT throws inside it
insertUserFails(userId) ==
    /\ uuid < MaxUuid
    /\ uuid' = uuid + 1
    /\ ret' = [op |-> "insertUser", failed |-> TRUE,
               val |-> TryCatch(DbThrows, Bool(FALSE))]
    /\ FailedCallUnchanged

\* Cache.getUser: the SELECT is not inside a try block
getUserFails(userId) ==
    /\ ret' = [op |-> "getUser", failed |-> TRUE, val |-> DbThrows]
    /\ UNCHANGED uuid
    /\ FailedCallUnchanged

\* Cache.insertEmoji: as insertUser
insertEmojiFails(entry) ==
    /\ uuid < MaxUuid
    /\ uuid' = uuid + 1
    /\ ret' = [op |-> "insertEmoji", failed |-> TRUE,
               val |-> TryCatch(DbThrows, Bool(FALSE))]
    /\ FailedCallUnchanged

\* Cache.batchInsertEmojis: the first INSERT of the transaction throws, after
\* its id was drawn; the transaction rolls back inside the try block
batchInsertEmojisFails(entries) ==
    /\ uuid < MaxUuid
    /\ uuid' = uuid + 1
    /\ ret' = [op |-> "batchInsertEmojis", failed |-> TRUE,
               val |-> TryCatch(DbThrows, Bool(FALSE))]
    /\ FailedCallUnchanged

\* Cache.getEmoji: no try block
getEmojiFails(name) ==
    /\ ret' = [op |-> "getEmoji", failed |-> TRUE, val |-> DbThrows]
    /\ UNCHANGED uuid
    /\ FailedCallUnchanged

\* Cache.listEmojis: no try block
listEmojisFails ==
    /\ ret' = [op |-> "listEmojis", failed |-> TRUE, val |-> DbThrows]
    /\ UNCHANGED uuid
    /\ FailedCallUnchanged

\* Cache.purgeExpiredItems: no try block
purgeExpiredItemsFails ==
    /\ ret' = [op |-> "purgeExpiredItems", failed |-> TRUE, val |-> DbThrows]
    /\ UNCHANGED uuid
    /\ FailedCallUnchanged

\* Cache.purgeUserCache: the DELETE is inside a try block
purgeUserCacheFails(userId) ==
    /\ ret' = [op |-> "purgeUserCache", failed |-> TRUE,
               val |-> TryCatch(DbThrows, Bool(FALSE))]
    /\ UNCHANGED uuid
    /\ FailedCallUnchanged

\* Cache.purgeAll: no try block; the callback is not reached
purgeAllFails ==
    /\ ret' = [op |-> "purgeAll", failed |-> TRUE, val |-> DbThrows]
    /\ UNCHANGED uuid
    /\ FailedCallUnchanged

\* Cache.healthCheck: SELECT 1 inside a try block
healthCheck(fails) ==
    /\ ret' = [op |-> "healthCheck", failed |-> fails,
               val |-> TryCatch(IF fails THEN DbThrows ELSE Bool(TRUE), Bool(FALSE))]
    /\ UNCHANGED uuid
    /\ FailedCallUnchanged

----------------------------------------------------------------------------
(* Request analytics: the bucket tables and user_agent_stats *)

\* what a method without a return statement hands back
Undefined == [type |-> "undefined"]

BucketRow(bucket, endpoint, statusCode, hits, totalResponseTime) ==
    [bucket |-> bucket, endpoint |-> endpoint, status_code |-> statusCode,
     hits |-> hits, total_response_time |-> totalResponseTime]

\* the row of a bucket table under PRIMARY KEY (bucket, endpoint, status_code)
SelectBucket(table, bucket, endpoint, statusCode) ==
    {r \in table : r.bucket = bucket /\ r.endpoint = endpoint /\ r.status_code = statusCode}

\* an insert that overwrites the row instead of incrementing it
UpsertBucketOverwrite(table, bucket, endpoint, statusCode, respTime) ==
    (table \ SelectBucket(table, bucket, endpoint, statusCode))
        \cup {BucketRow(bucket, endpoint, statusCode, 1, respTime)}

\* an upsert whose conflict clause counts the hit but not its response time
UpsertBucketHitsOnly(table, bucket, endpoint, statusCode, respTime) ==
    IF SelectBucket(table, bucket, endpoint, statusCode) # {}
    THEN {IF r \in SelectBucket(table, bucket, endpoint, statusCode)
          THEN [r EXCEPT !.hits = r.hits + 1]
          ELSE r : r \in table}
    ELSE table \cup {BucketRow(bucket, endpoint, statusCode, 1, respTime)}

\* INSERT INTO traffic_* (...) VALUES (?1, ?2, ?3, 1, ?4)
\* ON CONFLICT(bucket, endpoint, status_code) DO UPDATE SET hits = hits + 1,
\*   total_response_time = total_response_time + ?4
UpsertBucket(table, bucket, endpoint, statusCode, respTime) ==
    IF SelectBucket(table, bucket, endpoint, statusCode) # {}
    THEN {IF r \in SelectBucket(table, bucket, endpoint, statusCode)
          THEN [r EXCEPT !.hits = r.hits + 1,
                         !.total_response_time = r.total_response_time + respTime]
          ELSE r : r \in table}
    ELSE table \cup {BucketRow(bucket, endpoint, statusCode, 1, respTime)}

Max(a, b) == IF a >= b THEN a ELSE b

\* INSERT INTO user_agent_stats (user_agent, hits, last_seen) VALUES (?1, 1, ?2)
\* ON CONFLICT(user_agent) DO UPDATE SET hits = hits + 1, last_seen = MAX(last_seen, ?2)
UpsertUserAgent(table, userAgent, lastSeen) ==
    IF \E r \in table : r.user_agent = userAgent
    THEN {IF r.user_agent = userAgent
          THEN [r EXCEPT !.hits = r.hits + 1, !.last_seen = Max(r.last_seen, lastSeen)]
          ELSE r : r \in table}
    ELSE table \cup {[user_agent |-> userAgent, hits |-> 1, last_seen |-> lastSeen]}

\* a bucket start that is the time itself
BucketStartRaw(t, width) == t

\* now - (now % width), in seconds
BucketStart(t, width) == t - JsRem(t, width)

\* the number of statements recordRequest runs: the user agent is tracked only
\* when the argument is truthy
Statements(req) == IF req.userAgent # "" THEN 4 ELSE 3

\* a call without its try block
NoCatch(body, fallback) == body

\* the try block around the body of recordRequest
recordRequestCatch(body, fallback) == TryCatch(body, fallback)

\* Cache.recordRequest(endpoint, _method, statusCode, userAgent, _ipAddress,
\* responseTime); failAt = k > 0: the k-th statement throws, the statements
\* before it have been committed (there is no transaction)
recordRequestCall(req, failAt) ==
    LET respTime == req.responseTime   \* responseTime || 0
        done(k) == failAt = 0 \/ k < failAt
    IN /\ requests < MaxRequests
       /\ failAt <= Statements(req)
       /\ requests' = requests + 1
       /\ traffic10min' =
            IF done(1) THEN UpsertBucket(traffic10min, BucketStart(NowSec, 600),
                                         req.endpoint, req.statusCode, respTime)
            ELSE traffic10min
       /\ trafficHourly' =
            IF done(2) THEN UpsertBucket(trafficHourly, BucketStart(NowSec, 3600),
                                         req.endpoint, req.statusCode, respTime)
            ELSE trafficHourly
       /\ trafficDaily' =
            IF done(3) THEN UpsertBucket(trafficDaily, BucketStart(NowSec, 86400),
                                         req.endpoint, req.statusCode, respTime)
            ELSE trafficDaily
       /\ userAgentStats' =
            IF req.userAgent # "" /\ done(4)
            THEN UpsertUserAgent(userAgentStats, req.userAgent, now)
            ELSE userAgentStats
       /\ ret' = [op |-> "recordRequest", failAt |-> failAt,
                  val |-> recordRequestCatch(IF failAt # 0 THEN DbThrows ELSE Undefined,
                                             Undefined)]
       /\ UNCHANGED <<startupVars, memo, now, uuid, users, emojis, userUpdateQueue, isProcessingQueue,
                      slackWrapper, drains, ticks, upstreamCalls, dropped>>

\* Cache.recordRequest called outside the wrapped handlers
recordRequest(req, failAt) ==
    /\ recordRequestCall(req, failAt)
    /\ UNCHANGED wrapperVars

\* time passes until instant t
Advance(t) ==
    /\ t > now
    /\ now' = t
    /\ UNCHANGED <<wrapperVars, startupVars, analyticsVars, uuid, users, emojis, userUpdateQueue,
                   isProcessingQueue, slackWrapper, drains, ticks, upstreamCalls,
                   dropped, ret>>

\* an endpoint is the sequence of its path segments: "/users/U1" is <<"users", "U1">>
\* endpoint.match(/^\/head\/[^/]+$/)
MatchOne(endpoint, head) ==
    Len(endpoint) = 2 /\ endpoint[1] = head /\ endpoint[2] # ""
\* endpoint.match(/^\/head\/[^/]+\/tail$/)
MatchTail(endpoint, head, tail) ==
    Len(endpoint) = 3 /\ endpoint[1] = head /\ endpoint[2] # "" /\ endpoint[3] = tail
\* endpoint.includes("/head/")
IncludesDir(endpoint, head) ==
    \E i \in 1..(Len(endpoint) - 1) : endpoint[i] = head
\* endpoint.includes("/r"): a segment that starts with r
IncludesR(endpoint) ==
    \E i \in DOMAIN endpoint : endpoint[i] \in {"r", "reset"}

\* Cache.groupEndpoint
groupEndpoint(endpoint) ==
    IF endpoint = <<>> \/ endpoint = <<"dashboard">> THEN "Dashboard"
    ELSE IF endpoint = <<"health">> THEN "Health Check"
    ELSE IF endpoint[1] \in {"swagger", "swagger.json"} THEN "API Documentation"
    ELSE IF endpoint = <<"emojis">> THEN "Emoji List"
    ELSE IF MatchOne(endpoint, "emojis") THEN "Emoji Data"
    ELSE IF MatchTail(endpoint, "emojis", "r") THEN "Emoji Redirects"
    ELSE IF MatchOne(endpoint, "users") THEN "User Data"
    ELSE IF MatchTail(endpoint, "users", "r") THEN "User Redirects"
    ELSE IF MatchTail(endpoint, "users", "purge") \/ endpoint = <<"reset">>
         THEN "Cache Management"
    ELSE IF IncludesDir(endpoint, "users") /\ IncludesR(endpoint) THEN "User Redirects"
    ELSE IF IncludesDir(endpoint, "users") THEN "User Data"
    ELSE IF IncludesDir(endpoint, "emojis") /\ IncludesR(endpoint) THEN "Emoji Redirects"
    ELSE IF IncludesDir(endpoint, "emojis") THEN "Emoji Data"
    ELSE "Other"

----------------------------------------------------------------------------
(* Analytics reports and their memo cache (class AnalyticsCache) *)

cacheTTL == 30000
maxCacheSize == 10

\* a boundary of 30 days that belongs to the daily table
selectBucketTableStrict(days) ==
    IF days <= 1 THEN [table |-> "traffic_10min", bucketSize |-> 600]
    ELSE IF days < 30 THEN [table |-> "traffic_hourly", bucketSize |-> 3600]
    ELSE [table |-> "traffic_daily", bucketSize |-> 86400]

\* Cache.selectBucketTable
selectBucketTable(days) ==
    IF days <= 1 THEN [table |-> "traffic_10min", bucketSize |-> 600]
    ELSE IF days <= 30 THEN [table |-> "traffic_hourly", bucketSize |-> 3600]
    ELSE [table |-> "traffic_daily", bucketSize |-> 86400]

\* FROM ${table}
TableRows(table) ==
    CASE table = "traffic_10min" -> traffic10min
      [] table = "traffic_hourly" -> trafficHourly
      [] table = "traffic_daily" -> trafficDaily

\* cutoffBucket - (cutoffBucket % bucketSize)
alignedCutoff(days, bucketSize) ==
    LET cutoffBucket == NowSec - days * 24 * 60 * 60
    IN cutoffBucket - JsRem(cutoffBucket, bucketSize)

\* FROM ${table} WHERE bucket >= ? AND endpoint != '/stats'
ReportRows(sel, days) ==
    {r \in TableRows(sel.table) :
        r.bucket >= alignedCutoff(days, sel.bucketSize) /\ r.endpoint # <<"stats">>}

\* SUM(hits), SUM(total_response_time)
RECURSIVE SumHits(_)
SumHits(rows) ==
    IF rows = {} THEN 0
    ELSE LET r == CHOOSE x \in rows : TRUE IN r.hits + SumHits(rows \ {r})
RECURSIVE SumTime(_)
SumTime(rows) ==
    IF rows = {} THEN 0
    ELSE LET r == CHOOSE x \in rows : TRUE IN r.total_response_time + SumTime(rows \ {r})

\* the report of one kind over the rows selected from one table: the totals
\* and groupings of the result, averages kept as their numerator and denominator
ReportFrom(kind, sel, days) ==
    LET rows == ReportRows(sel, days) IN
    CASE kind = "analytics" ->
           [totalRequests |-> SumHits(rows),
            requestsByEndpoint |->
                {[endpoint |-> g,
                  count |-> SumHits({r \in rows : groupEndpoint(r.endpoint) = g})] :
                 g \in {groupEndpoint(r.endpoint) : r \in rows}}]
      [] kind = "essential" ->
           [totalRequests |-> SumHits(rows),
            totalTime |-> SumTime(rows),
            errors |-> SumHits({r \in rows : r.status_code >= 400})]
      [] kind = "charts" ->
           [requestsByDay |->
                {[bucket |-> b,
                  count |-> SumHits({r \in rows : r.bucket = b}),
                  totalTime |-> SumTime({r \in rows : r.bucket = b})] :
                 b \in {r.bucket : r \in rows}}]

\* the report as the query methods compute it
Report(kind, days) == ReportFrom(kind, selectBucketTable(days), days)

\* `analytics_${days}`, `essential_${days}`, `charts_${days}`
CacheKey(kind, days) == <<kind, days>>

\* an entry that is still served when its age equals the TTL
FreshInclusive(timestamp) == now - timestamp <= cacheTTL

\* now - cached.timestamp < this.cacheTTL
Fresh(timestamp) == now - timestamp < cacheTTL

\* AnalyticsCache.getAnalyticsData / getEssentialStatsData / getChartData: the
\* entries that the lookup serves (none: the method returns null)
MemoGet(key, kind) ==
    {e \in Range(memo) : e.key = key /\ Fresh(e.timestamp) /\ e.type = kind}

\* this.cache.set(key, {data, timestamp: Date.now()}): a key that is present
\* keeps its place in the Map's order
MapSet(m, entry) ==
    IF \E i \in DOMAIN m : m[i].key = entry.key
    THEN [i \in DOMAIN m |-> IF m[i].key = entry.key THEN entry ELSE m[i]]
    ELSE Append(m, entry)

\* a write that never deletes a key
setCacheEntryKeepAll(m, key, kind, data) ==
    MapSet(m, [key |-> key, type |-> kind, data |-> data, timestamp |-> now])

\* AnalyticsCache.setCacheEntry
setCacheEntry(m, key, kind, data) ==
    LET set == MapSet(m, [key |-> key, type |-> kind, data |-> data, timestamp |-> now])
    IN IF Len(set) > maxCacheSize
       THEN Tail(set)     \* keys[0] is deleted
       ELSE set

\* the part the three query methods share: the memo lookup, and on a miss the
\* queries against the selected table and the store into the memo
Query(op, kind, days) ==
    LET cached == MemoGet(CacheKey(kind, days), kind) IN
    IF cached # {}
    THEN /\ \E e \in cached :
              ret' = [op |-> op, days |-> days, cached |-> TRUE, read |-> {},
                      val |-> e.data]
         /\ UNCHANGED memo
    ELSE /\ ret' = [op |-> op, days |-> days, cached |-> FALSE,
                    read |-> {selectBucketTable(days).table},
                    val |-> Report(kind, days)]
         /\ memo' = setCacheEntry(memo, CacheKey(kind, days), kind,
                                  Report(kind, days))

\* a query writes no table
QueryUnchanged ==
    UNCHANGED <<wrapperVars, startupVars, traffic10min, trafficHourly, trafficDaily, userAgentStats, requests,
                now, uuid, users, emojis, userUpdateQueue, isProcessingQueue,
                slackWrapper, drains, ticks, upstreamCalls, dropped>>

\* Cache.getAnalytics
getAnalytics(days) ==
    /\ Query("getAnalytics", "analytics", days)
    /\ QueryUnchanged

\* Cache.getEssentialStats
getEssentialStats(days) ==
    /\ Query("getEssentialStats", "essential", days)
    /\ QueryUnchanged

\* Cache.getChartData
getChartData(days) ==
    /\ Query("getChartData", "charts", days)
    /\ QueryUnchanged

\* SELECT user_agent as userAgent, hits as count FROM user_agent_stats
\* WHERE user_agent IS NOT NULL ORDER BY hits DESC LIMIT 50 (the tables of the
\* model stay below 50 rows; the rows are kept without their order)
topUserAgents ==
    [userAgents |-> {[userAgent |-> r.user_agent, count |-> r.hits] : r \in userAgentStats}]

\* Cache.getUserAgents: the key is "useragents_all" whatever _days is
getUserAgents(days) ==
    /\ LET cached == MemoGet(<<"useragents", "all">>, "useragents") IN
       IF cached # {}
       THEN /\ \E e \in cached :
                 ret' = [op |-> "getUserAgents", days |-> days, cached |-> TRUE,
                         read |-> {}, val |-> e.data]
            /\ UNCHANGED memo
       ELSE /\ ret' = [op |-> "getUserAgents", days |-> days, cached |-> FALSE,
                       read |-> {"user_agent_stats"}, val |-> topUserAgents]
            /\ memo' = setCacheEntry(memo, <<"useragents", "all">>, "useragents",
                                     topUserAgents)
    /\ QueryUnchanged

\* a report over no rows
EmptyReport(kind) ==
    CASE kind = "analytics" -> [totalRequests |-> 0, requestsByEndpoint |-> {}]
      [] kind = "essential" -> [totalRequests |-> 0, totalTime |-> 0, errors |-> 0]
      [] kind = "charts" -> [requestsByDay |-> {}]
      [] kind = "useragents" -> [userAgents |-> {}]

\* the part the failing queries share: the memo lookup finds nothing to serve
\* and the first this.db.query of the method throws; no query method has a try
\* block, so the exception leaves the method before the memo is written
QueryFails(op, kind, key, days) ==
    /\ MemoGet(key, kind) = {}
    /\ ret' = [op |-> op, days |-> days, cached |-> FALSE, failed |-> TRUE,
               kind |-> kind, val |-> DbThrows]
    /\ UNCHANGED memo

\* Cache.getAnalytics while the database rejects statements
getAnalyticsFails(days) ==
    /\ QueryFails("getAnalytics", "analytics", CacheKey("analytics", days), days)
    /\ QueryUnchanged

\* Cache.getEssentialStats while the database rejects statements
getEssentialStatsFails(days) ==
    /\ QueryFails("getEssentialStats", "essential", CacheKey("essential", days), days)
    /\ QueryUnchanged

\* Cache.getChartData while the database rejects statements
getChartDataFails(days) ==
    /\ QueryFails("getChartData", "charts", CacheKey("charts", days), days)
    /\ QueryUnchanged

\* Cache.getUserAgents while the database rejects statements
getUserAgentsFails(days) ==
    /\ QueryFails("getUserAgents", "useragents", <<"useragents", "all">>, days)
    /\ QueryUnchanged

----------------------------------------------------------------------------
(* Startup and the migration manager (src/src/migrations).  A version is the
   sequence of the numbers of its dotted text: "0.3.1" is <<0, 3, 1>>, what
   split(".").map(Number) yields *)

\* no version: null
NoVersion == <<>>

\* partsA[i] ?? 0
Part(v, i) == IF i \in DOMAIN v THEN v[i] ELSE 0

\* MigrationManager.compareVersions
RECURSIVE compareFrom(_, _, _)
compareFrom(a, b, i) ==
    IF i > Max(Len(a), Len(b)) THEN 0
    ELSE IF Part(a, i) < Part(b, i) THEN 0 - 1
    ELSE IF Part(a, i) > Part(b, i) THEN 1
    ELSE compareFrom(a, b, i + 1)
compareVersions(a, b) == compareFrom(a, b, 1)

\* a predecessor that decrements the patch number only
getPreviousVersionPatch(version) ==
    IF Len(version) # 3 THEN NoVersion
    ELSE IF version[3] > 0 THEN <<version[1], version[2], version[3] - 1>>
    ELSE NoVersion

\* MigrationManager.getPreviousVersion
getPreviousVersion(version) ==
    IF Len(version) # 3 THEN NoVersion
    ELSE IF version[3] > 0 THEN <<version[1], version[2], version[3] - 1>>
    ELSE IF version[2] > 0 THEN <<version[1], version[2] - 1, 0>>
    ELSE IF version[1] > 0 THEN <<version[1] - 1, 0, 0>>
    ELSE NoVersion

\* the migrations array of Cache.runMigrations, in the order of the source
KnownMigrations ==
    <<[version |-> <<0, 3, 1>>, description |-> "Fix endpoint grouping in analytics data"],
      [version |-> <<0, 3, 2>>, description |-> "Group request logs that aren't already grouped"],
      [version |-> <<0, 4, 0>>, description |-> "Convert to bucketed time-series analytics"]>>

\* [...this.migrations].sort((a, b) => this.compareVersions(a.version, b.version))
sortedMigrations ==
    SortSeq(KnownMigrations, LAMBDA a, b : compareVersions(a.version, b.version) < 0)

\* a manager that does not look a version up in the table
isMigrationAppliedNever(table, version) == FALSE

\* MigrationManager.isMigrationApplied: SELECT COUNT(*) ... WHERE version = ?
isMigrationApplied(table, version) ==
    Cardinality({i \in DOMAIN table : table[i].version = version}) > 0

\* MigrationManager.getLastAppliedMigration: ORDER BY applied_at DESC LIMIT 1;
\* among rows of the same millisecond SQL leaves the choice open; the result
\* is the set of the versions the query can return (on an empty table: null)
getLastAppliedMigration(table) ==
    IF table = <<>> THEN {NoVersion} ELSE
    {table[i].version : i \in {j \in DOMAIN table :
                                  \A k \in DOMAIN table : table[k].applied_at <= table[j].applied_at}}

\* MigrationManager.recordMigration: INSERT INTO migrations (version, applied_at,
\* description); the table has no UNIQUE constraint on version
recordMigration(table, version, description) ==
    Append(table, [version |-> version, applied_at |-> now, description |-> description])

----------------------------------------------------------------------------
(* The up procedures.  They are async functions without an await: a call
   runs the body at once, and an exception inside it rejects the returned
   promise instead of reaching the caller *)

\* a row of request_analytics
LegacyRow(id, endpoint, statusCode, userAgent, timestamp, responseTime) ==
    [id |-> id, endpoint |-> endpoint, status_code |-> statusCode,
     user_agent |-> userAgent, timestamp |-> timestamp, response_time |-> responseTime]

\* endpoint LIKE '/head/%'
LikeDir(endpoint, head) == Len(endpoint) >= 2 /\ endpoint[1] = head

\* endpointGroupingMigration.up: WHERE endpoint LIKE '/users/%' OR endpoint LIKE '/emojis/%'
Selected031(rows) ==
    {r \in rows : LikeDir(r.endpoint, "users") \/ LikeDir(r.endpoint, "emojis")}

\* endpointGroupingMigration.up: newEndpoint of one entry
group031(endpoint) ==
    IF MatchOne(endpoint, "users") \/ MatchTail(endpoint, "users", "r")
       \/ MatchOne(endpoint, "emojis") \/ MatchTail(endpoint, "emojis", "r")
    THEN endpoint
    ELSE IF IncludesDir(endpoint, "users") /\ IncludesR(endpoint) THEN <<"users", "USER_ID", "r">>
    ELSE IF IncludesDir(endpoint, "users") THEN <<"users", "USER_ID">>
    ELSE IF IncludesDir(endpoint, "emojis") /\ IncludesR(endpoint) THEN <<"emojis", "EMOJI_NAME", "r">>
    ELSE IF IncludesDir(endpoint, "emojis") THEN <<"emojis", "EMOJI_NAME">>
    ELSE endpoint

\* logGroupingMigration.up: the WHERE clause of its SELECT (ten NOT LIKE)
Selected032(rows) ==
    {r \in rows :
        /\ ~LikeDir(r.endpoint, "users")
        /\ ~LikeDir(r.endpoint, "emojis")
        /\ r.endpoint \notin {<<"health">>, <<"dashboard">>, <<"reset">>, <<"stats">>, <<>>}
        /\ ~(Len(r.endpoint) >= 1 /\ r.endpoint[1] \in {"swagger", "swagger.json"})}

\* logGroupingMigration.up: newEndpoint of one entry (the entries of the model
\* are paths, none holds "localhost" or "http")
group032(endpoint) ==
    IF MatchOne(endpoint, "users") THEN <<"users", "USER_ID">>
    ELSE IF MatchTail(endpoint, "users", "r") THEN <<"users", "USER_ID", "r">>
    ELSE IF MatchOne(endpoint, "emojis") THEN <<"emojis", "EMOJI_NAME">>
    ELSE IF MatchTail(endpoint, "emojis", "r") THEN <<"emojis", "EMOJI_NAME", "r">>
    ELSE IF IncludesDir(endpoint, "users") /\ IncludesR(endpoint) THEN <<"users", "USER_ID", "r">>
    ELSE IF IncludesDir(endpoint, "users") THEN <<"users", "USER_ID">>
    ELSE IF IncludesDir(endpoint, "emojis") /\ IncludesR(endpoint) THEN <<"emojis", "EMOJI_NAME", "r">>
    ELSE IF IncludesDir(endpoint, "emojis") THEN <<"emojis", "EMOJI_NAME">>
    ELSE IF endpoint \in {<<>>, <<"health">>, <<"dashboard">>, <<"reset">>, <<"stats">>}
         THEN endpoint
    ELSE IF Len(endpoint) >= 1 /\ endpoint[1] \in {"swagger", "swagger.json"} THEN <<"swagger">>
    ELSE <<"other">>

\* the tables an up procedure reads and writes
Store == [requestAnalytics |-> requestAnalytics, traffic10min |-> traffic10min,
          trafficHourly |-> trafficHourly, trafficDaily |-> trafficDaily,
          userAgentStats |-> userAgentStats]

\* the loop of UPDATE request_analytics SET endpoint = ? WHERE id = ? over the
\* entries whose endpoint changes, in id order (grouped: the new endpoint of
\* each selected endpoint); failAt = k > 0: the k-th UPDATE throws, the ones
\* before it have run
Regroup(store, selected, grouped, failAt) ==
    LET changing == {r \in selected : grouped[r.endpoint] # r.endpoint}
        rank(r) == Cardinality({x \in changing : x.id <= r.id})
        done(r) == r \in changing /\ (failAt = 0 \/ rank(r) < failAt)
        rows == {IF done(r) THEN [r EXCEPT !.endpoint = grouped[r.endpoint]] ELSE r :
                 r \in store.requestAnalytics.rows}
    IN [store |-> [store EXCEPT !.requestAnalytics.rows = rows],
        rejected |-> failAt # 0 /\ failAt <= Cardinality(changing)]

\* SELECT ... FROM request_analytics on a database without that table
NoSuchTable(store) == [store |-> store, rejected |-> TRUE]

\* endpointGroupingMigration.up
up031(store, failAt) ==
    IF ~store.requestAnalytics.exists THEN NoSuchTable(store)
    ELSE LET selected == Selected031(store.requestAnalytics.rows)
         IN Regroup(store, selected,
                    [e \in {r.endpoint : r \in selected} |-> group031(e)], failAt)

\* logGroupingMigration.up
up032(store, failAt) ==
    IF ~store.requestAnalytics.exists THEN NoSuchTable(store)
    ELSE LET selected == Selected032(store.requestAnalytics.rows)
         IN Regroup(store, selected,
                    [e \in {r.endpoint : r \in selected} |-> group032(e)], failAt)

\* bucketAnalyticsMigration.up: the statements run for one row of the batch
MigrateRow(store, row) ==
    LET timestampSec == row.timestamp \div 1000
        bucket10min == BucketStart(timestampSec, 600)
        oneDayAgo == NowSec - 86400
    IN [store EXCEPT
          !.traffic10min =
              IF bucket10min >= oneDayAgo
              THEN UpsertBucket(@, bucket10min, row.endpoint, row.status_code,
                                row.response_time)
              ELSE @,
          !.trafficHourly = UpsertBucket(@, BucketStart(timestampSec, 3600), row.endpoint,
                                         row.status_code, row.response_time),
          !.trafficDaily = UpsertBucket(@, BucketStart(timestampSec, 86400), row.endpoint,
                                        row.status_code, row.response_time),
          !.userAgentStats =
              IF row.user_agent # ""
              THEN UpsertUserAgent(@, row.user_agent, row.timestamp)
              ELSE @]

\* bucketAnalyticsMigration.up: the batch over the rows, in id order
RECURSIVE MigrateRows(_, _)
MigrateRows(store, rows) ==
    IF rows = {} THEN store
    ELSE LET row == CHOOSE r \in rows : \A x \in rows : r.id <= x.id
         IN MigrateRows(MigrateRow(store, row), rows \ {row})

\* bucketAnalyticsMigration.up: CREATE TABLE IF NOT EXISTS (the four tables
\* exist since initDatabase), SELECT FROM request_analytics, the batch in its
\* own nested transaction, DROP TABLE request_analytics.  failAt = 1: a
\* statement of the batch throws and the batch rolls back; failAt = 2: the
\* DROP throws after the batch
up040(store, failAt) ==
    IF ~store.requestAnalytics.exists THEN NoSuchTable(store)
    ELSE IF failAt = 1 THEN [store |-> store, rejected |-> TRUE]
    ELSE LET migrated == MigrateRows(store, store.requestAnalytics.rows) IN
         IF failAt = 2 THEN [store |-> migrated, rejected |-> TRUE]
         ELSE [store |-> [migrated EXCEPT !.requestAnalytics = [exists |-> FALSE, rows |-> {}]],
               rejected |-> FALSE]

\* migration.up(this.db) of the migration of one version
Up(version, store, failAt) ==
    CASE version = <<0, 3, 1>> -> up031(store, failAt)
      [] version = <<0, 3, 2>> -> up032(store, failAt)
      [] version = <<0, 4, 0>> -> up040(store, failAt)

\* the number of statements of up at which a failure can be injected
UpFailPoints(version, store) ==
    IF ~store.requestAnalytics.exists THEN 0
    ELSE CASE version = <<0, 3, 1>> ->
                Cardinality({r \in Selected031(store.requestAnalytics.rows) :
                                group031(r.endpoint) # r.endpoint})
           [] version = <<0, 3, 2>> ->
                Cardinality({r \in Selected032(store.requestAnalytics.rows) :
                                group032(r.endpoint) # r.endpoint})
           [] version = <<0, 4, 0>> -> 2

----------------------------------------------------------------------------
(* The process: new Cache(...) runs initDatabase, the schedules and
   runMigrations in one synchronous stretch; MigrationManager.runMigrations has
   no await, so the pass ends before Cache.runMigrations reaches its await and
   the constructor returns.  The pass is shown one migration at a time *)

MaxStarts == 2

\* callbacks of requests and timers run between the synchronous stretches
IdleEarly == pc # "down"

\* no synchronous code is running and the cache object exists
Idle == pc = "serving"

\* a manager that writes the virtual record on every run
NeedsVirtualAlways(lastAppliedVersion) == TRUE

\* if (!lastAppliedVersion)
NeedsVirtual(lastAppliedVersion) == lastAppliedVersion = NoVersion

\* a loop without the check of the future version
EligibleAnyVersion(migration, table, lastAppliedVersion, currentVersion) ==
    /\ ~isMigrationApplied(table, migration.version)
    /\ ~(lastAppliedVersion # NoVersion
         /\ compareVersions(migration.version, lastAppliedVersion) <= 0)

\* the three checks at the head of the loop body: none of them skips
Eligible(migration, table, lastAppliedVersion, currentVersion) ==
    /\ ~isMigrationApplied(table, migration.version)
    /\ ~(compareVersions(migration.version, currentVersion) > 0)
    /\ ~(lastAppliedVersion # NoVersion
         /\ compareVersions(migration.version, lastAppliedVersion) <= 0)

\* the catch block of MigrationManager.runMigrations
PassFailed == [success |-> FALSE, migrationsApplied |-> 0, lastAppliedVersion |-> NoVersion]

\* what a step of the startup leaves alone
StartupUnchanged ==
    UNCHANGED <<wrapperVars, now, uuid, users, emojis, userUpdateQueue, isProcessingQueue,
                slackWrapper, drains, ticks, upstreamCalls, dropped, memo, requests, build,
                starts>>

\* the process starts: the constructor up to the loop of the pass.  The memory
\* of the process is new; the tables are what the file holds.  virtualFails:
\* the INSERT of the virtual record throws, the catch block ends the pass
Start(currentVersion, virtualFails) ==
    /\ pc = "down"
    /\ starts < MaxStarts
    /\ starts' = starts + 1
    /\ build' = currentVersion
    /\ \E lastApplied \in getLastAppliedMigration(migrations) :
         LET previousVersion == getPreviousVersion(currentVersion)
             virtual == NeedsVirtual(lastApplied) /\ previousVersion # NoVersion
         IN /\ virtualFails => virtual
            /\ migrations' =
                 IF virtual /\ ~virtualFails
                 THEN recordMigration(migrations, previousVersion,
                                      "Virtual migration for existing installation")
                 ELSE migrations
            /\ pass' = IF virtualFails THEN NoPass
                       ELSE [i |-> 1,
                             lastAppliedVersion |->
                                 IF virtual THEN previousVersion ELSE lastApplied,
                             migrationsApplied |-> 0,
                             rerun |-> passResult.success /\ build = currentVersion]
    /\ pc' = IF virtualFails THEN "serving" ELSE "pass"
    /\ passResult' = IF virtualFails THEN PassFailed ELSE passResult
    /\ memo' = <<>>
    /\ userUpdateQueue' = <<>>
    /\ isProcessingQueue' = FALSE
    /\ slackWrapper' = FALSE
    /\ drains' = <<>>
    /\ request' = NoRequest
    /\ ret' = [op |-> "start"]
    /\ UNCHANGED <<now, uuid, users, emojis, ticks, upstreamCalls, dropped, requests,
                   traffic10min, trafficHourly, trafficDaily, userAgentStats,
                   requestAnalytics, upLog, response>>

\* one turn of the loop that ends in a continue
Skip ==
    /\ pc = "pass"
    /\ pass.i <= Len(sortedMigrations)
    /\ ~Eligible(sortedMigrations[pass.i], migrations, pass.lastAppliedVersion, build)
    /\ pass' = [pass EXCEPT !.i = @ + 1]
    /\ UNCHANGED <<pc, migrations, requestAnalytics, passResult, upLog, ret,
                   traffic10min, trafficHourly, trafficDaily, userAgentStats>>
    /\ StartupUnchanged

\* one turn of the loop that applies a migration:
\* this.db.transaction(() => { migration.up(this.db); this.recordMigration(...) })().
\* The promise of up is dropped, so a rejection neither rolls back nor stops the
\* loop.  recordFails: the INSERT of the record throws, the transaction rolls
\* back and the catch block ends the pass
Apply(failAt, recordFails) ==
    LET migration == sortedMigrations[pass.i]
        up == Up(migration.version, Store, failAt)
        after == IF recordFails THEN Store ELSE up.store
    IN /\ pc = "pass"
       /\ pass.i <= Len(sortedMigrations)
       /\ Eligible(migration, migrations, pass.lastAppliedVersion, build)
       /\ failAt <= UpFailPoints(migration.version, Store)
       /\ upLog' = Append(upLog, [version |-> migration.version, start |-> starts,
                                  rejected |-> up.rejected, committed |-> ~recordFails])
       /\ requestAnalytics' = after.requestAnalytics
       /\ traffic10min' = after.traffic10min
       /\ trafficHourly' = after.trafficHourly
       /\ trafficDaily' = after.trafficDaily
       /\ userAgentStats' = after.userAgentStats
       /\ IF recordFails
          THEN /\ UNCHANGED migrations
               /\ pass' = NoPass
               /\ passResult' = PassFailed
               /\ pc' = "serving"
          ELSE /\ migrations' = recordMigration(migrations, migration.version,
                                                migration.description)
               /\ pass' = [pass EXCEPT !.i = @ + 1,
                                       !.lastAppliedVersion = migration.version,
                                       !.migrationsApplied = @ + 1]
               /\ UNCHANGED <<passResult, pc>>
       /\ UNCHANGED ret
       /\ StartupUnchanged

\* the loop is over: runMigrations returns, Cache.runMigrations logs the counts
\* (it does not read success) and the constructor returns
Finish ==
    /\ pc = "pass"
    /\ pass.i > Len(sortedMigrations)
    /\ passResult' = [success |-> TRUE, migrationsApplied |-> pass.migrationsApplied,
                      lastAppliedVersion |-> pass.lastAppliedVersion]
    /\ pass' = NoPass
    /\ pc' = "serving"
    /\ UNCHANGED <<migrations, requestAnalytics, upLog, ret,
                   traffic10min, trafficHourly, trafficDaily, userAgentStats>>
    /\ StartupUnchanged

\* the process ends: a signal, a crash, or the runtime ending it on the
\* unhandled rejection of an up; the file keeps its tables
Stop ==
    /\ pc = "serving"
    /\ pc' = "down"
    /\ UNCHANGED <<migrations, requestAnalytics, pass, passResult, upLog, ret,
                   traffic10min, trafficHourly, trafficDaily, userAgentStats>>
    /\ StartupUnchanged

----------------------------------------------------------------------------
(* Emoji inputs *)
Entry(name, alias, imageUrl) ==
    [wellFormed |-> TRUE, name |-> name, alias |-> alias, imageUrl |-> imageUrl]
\* an entry whose name is undefined
Malformed == [wellFormed |-> FALSE]

EmojiEntries == {Entry(<<"x">>, <<>>, "e1"), Entry(<<"Y">>, <<"X">>, "e2"), Malformed}
EmojiNameInputs == {<<"X">>, <<"y">>}
\* expirationHours for emojis: omitted, or 48 hours
EmojiTtlInputs == {0, 48}
MaxBatch == 2
Batches == UNION {[1..n -> EmojiEntries] : n \in 1..MaxBatch}

----------------------------------------------------------------------------
(* The user table on its own: request-path calls on an empty store *)
NextUser ==
    \/ Tick
    \/ \E e \in UserIdInputs, p \in Profiles, t \in TtlInputs : insertUser(e, p, t)
    \/ \E e \in UserIdInputs : getUser(e)
    \/ \E e \in UserIdInputs : purgeUserCache(e)
    \/ purgeAll

Spec == Init /\ [][NextUser]_vars

(* The emoji table on its own *)
NextEmoji ==
    \/ Tick
    \/ \E e \in EmojiEntries, t \in EmojiTtlInputs : insertEmoji(e, t)
    \/ \E b \in Batches, t \in EmojiTtlInputs : batchInsertEmojis(b, t)
    \/ \E n \in EmojiNameInputs : getEmoji(n)
    \/ listEmojis
    \/ purgeExpiredItems
    \/ purgeAll

SpecEmoji == Init /\ [][NextEmoji]_vars

(* The refresh queue: the process starts on a database file that an earlier
   run left with four user rows, all older than 24 hours and none expired *)
QueueIds == {<<"U", "A">>, <<"U", "B">>, <<"U", "C">>, <<"U", "D">>}
Stored == [displayName |-> "d1", pronouns |-> "p1", imageUrl |-> "i1"]
Fetched == [displayName |-> "d2", pronouns |-> "p2", imageUrl |-> "i2"]
PersistedUsers ==
    {UserRow(0 - k, <<"U", <<"A", "B", "C", "D">>[k]>>, Stored.displayName,
             Stored.pronouns, Stored.imageUrl, 3 * Day) : k \in 1..4}

InitQueue ==
    /\ now = 0
    /\ uuid = 0
    /\ users = PersistedUsers
    /\ emojis = {}
    /\ userUpdateQueue = <<>>
    /\ isProcessingQueue = FALSE
    /\ slackWrapper = FALSE
    /\ drains = <<>>
    /\ ticks = 0
    /\ upstreamCalls = 0
    /\ dropped = {}
    /\ ret = [op |-> "none"]
    /\ InitStarted
    /\ InitAnalytics

NextQueue ==
    \/ \E e \in QueueIds : getUser(e)
    \/ setSlackWrapper
    \/ processUserUpdateQueue
    \/ \E k \in DOMAIN drains : DrainFetched(k, Fetched)
    \/ \E k \in DOMAIN drains : DrainInserted(k)
    \/ \E k \in DOMAIN drains, err \in FetchErrors : DrainFailed(k, err)

SpecQueue == InitQueue /\ [][NextQueue]_vars

(* The refresh queue with a timer that never stops: the ticks are not counted,
   and a tick that returns at its guard changes nothing *)

\* a setInterval tick that passes the guard of processUserUpdateQueue and
\* runs up to the first await
setIntervalTick ==
    /\ ~QueueGuard
    /\ isProcessingQueue' = TRUE
    /\ drains' = Append(drains, [usersToUpdate |-> Slice(userUpdateQueue, QueueBatch),
                                 i |-> 1, pc |-> "getUserInfo", calls |-> 1])
    /\ upstreamCalls' = upstreamCalls + 1
    /\ ret' = [op |-> "processUserUpdateQueue", val |-> Bool(TRUE)]
    /\ UNCHANGED <<wrapperVars, startupVars, analyticsVars, now, uuid, users, emojis,
                   userUpdateQueue, slackWrapper, ticks, dropped>>

\* the upstream call of a drain returns or fails
UpstreamAnswers ==
    \E k \in DOMAIN drains :
        \/ DrainFetched(k, Fetched)
        \/ \E err \in FetchErrors : DrainFailed(k, err)

\* the awaited insertUser of a drain returns
InsertReturns == \E k \in DOMAIN drains : DrainInserted(k)

NextLive ==
    \/ \E e \in QueueIds : getUser(e)
    \/ setSlackWrapper
    \/ setIntervalTick
    \/ \E k \in DOMAIN drains : DrainFetched(k, Fetched)
    \/ \E k \in DOMAIN drains : DrainInserted(k)
    \/ \E k \in DOMAIN drains, err \in FetchErrors : DrainFailed(k, err)

\* the timer keeps ticking, every upstream call returns or fails, and every
\* awaited insertUser returns
SpecLive ==
    /\ InitQueue
    /\ [][NextLive]_vars
    /\ WF_vars(setIntervalTick)
    /\ WF_vars(UpstreamAnswers)
    /\ WF_vars(InsertReturns)

(* The refresh queue over time: two stale rows, reads, drains and the clock *)
RetryIds == {<<"U", "A">>, <<"U", "B">>}
InitRetry ==
    /\ now = 0
    /\ uuid = 0
    /\ users = {r \in PersistedUsers : r.userId \in RetryIds}
    /\ emojis = {}
    /\ userUpdateQueue = <<>>
    /\ isProcessingQueue = FALSE
    /\ slackWrapper = FALSE
    /\ drains = <<>>
    /\ ticks = 0
    /\ upstreamCalls = 0
    /\ dropped = {}
    /\ ret = [op |-> "none"]
    /\ InitStarted
    /\ InitAnalytics

NextRetry ==
    \/ Tick
    \/ \E e \in RetryIds : getUser(e)
    \/ setSlackWrapper
    \/ processUserUpdateQueue
    \/ \E k \in DOMAIN drains : DrainFetched(k, Fetched)
    \/ \E k \in DOMAIN drains : DrainInserted(k)
    \/ \E k \in DOMAIN drains, err \in FetchErrors : DrainFailed(k, err)

SpecRetry == InitRetry /\ [][NextRetry]_vars

(* Every operation interleaved, on small inputs *)
AllIds == {<<"U", "A">>, <<"u", "a">>}
AllEntries == {Entry(<<"x">>, <<>>, "e1"), Entry(<<"X">>, <<>>, "e2")}
AllBatches == {<<Entry(<<"x">>, <<>>, "e1"), Entry(<<"X">>, <<>>, "e2")>>,
               <<Entry(<<"y">>, <<>>, "e1"), Malformed>>}

NextAll ==
    \/ Tick
    \/ \E e \in AllIds : insertUser(e, Stored, 24)
    \/ \E e \in AllIds : getUser(e)
    \/ \E e \in AllIds : purgeUserCache(e)
    \/ purgeAll
    \/ setSlackWrapper
    \/ processUserUpdateQueue
    \/ \E k \in DOMAIN drains : DrainFetched(k, Fetched)
    \/ \E k \in DOMAIN drains : DrainInserted(k)
    \/ \E k \in DOMAIN drains, err \in FetchErrors : DrainFailed(k, err)
    \/ \E e \in AllEntries : insertEmoji(e, 0)
    \/ \E b \in AllBatches : batchInsertEmojis(b, 0)
    \/ \E n \in {<<"X">>} : getEmoji(n)
    \/ listEmojis
    \/ purgeExpiredItems

SpecAll == Init /\ [][NextAll]_vars

(* The request analytics: requests recorded at a few instants over two days,
   some of them with a failing statement, and the hourly housekeeping *)
Request(endpoint, statusCode, userAgent, responseTime) ==
    [endpoint |-> endpoint, statusCode |-> statusCode, userAgent |-> userAgent,
     responseTime |-> responseTime]
\* "/users/U1" 200 curl/8.0 50 ms; "/users/U2" 200 curl/8.0 150 ms;
\* "/health" 500 without user agent and response time
Requests == {Request(<<"users", "U1">>, 200, "curl/8.0", 50),
             Request(<<"users", "U2">>, 200, "curl/8.0", 150),
             Request(<<"health">>, 500, "", 0)}
\* the statement that throws: none, or the first to the fourth
FailAts == 0..4
\* 100.5 s, 700 s, a day and 1000 s, a day and an hour and 700 s
Instants == {100500, 700000, Day + 1000000, Day + 3600000 + 700000}

NextAnalytics ==
    \/ \E t \in Instants : Advance(t)
    \/ \E r \in Requests, f \in FailAts : recordRequest(r, f)
    \/ purgeExpiredItems

SpecAnalytics == Init /\ [][NextAnalytics]_vars

(* The reports and their memo cache.  The database file holds the rows an
   earlier run left: three requests to /health answered with 500, of which one
   failed at its second statement and one at its third.  The process has served
   nine reports in its first millisecond: the full report for 1 day and the
   charts for 3 to 10 days *)
PersistedHealth(hits) == BucketRow(0, <<"health">>, 500, hits, 0)
MemoRequest == Request(<<"users", "U1">>, 200, "curl/8.0", 50)
\* the last millisecond of the TTL, the TTL, twice the TTL
MemoInstants == {cacheTTL - 1, cacheTTL, 2 * cacheTTL}

InitTables ==
    /\ traffic10min = {PersistedHealth(3)}
    /\ trafficHourly = {PersistedHealth(2)}
    /\ trafficDaily = {PersistedHealth(1)}
    /\ userAgentStats = {}
    /\ requests = 0

\* the entry a query of (kind, days) stores at the start, on the persisted tables
ServedAtStart(kind, days) ==
    [key |-> CacheKey(kind, days), type |-> kind, data |-> Report(kind, days),
     timestamp |-> now]

InitMemo ==
    /\ now = 0
    /\ uuid = 0
    /\ users = {}
    /\ emojis = {}
    /\ userUpdateQueue = <<>>
    /\ isProcessingQueue = FALSE
    /\ slackWrapper = FALSE
    /\ drains = <<>>
    /\ ticks = 0
    /\ upstreamCalls = 0
    /\ dropped = {}
    /\ ret = [op |-> "none"]
    /\ InitStarted
    /\ InitTables
    /\ memo = <<ServedAtStart("analytics", 1)>>
                \o [i \in 1..8 |-> ServedAtStart("charts", i + 2)]

NextMemo ==
    \/ \E t \in MemoInstants : Advance(t)
    \/ requests = 0 /\ recordRequest(MemoRequest, 0)   \* one request in this scenario
    \/ \E d \in {1, 30} : getAnalytics(d)
    \/ \E d \in {31} : getEssentialStats(d)
    \/ \E d \in {2} : getChartData(d)

SpecMemo == InitMemo /\ [][NextMemo]_vars

(* The entity store with a database that may reject the statements of a call *)
NextFailure ==
    \/ \E e \in AllIds : insertUser(e, Stored, 24)
    \/ \E e \in AllIds : getUser(e)
    \/ \E e \in AllEntries : insertEmoji(e, 0)
    \/ \E e \in AllIds : insertUserFails(e)
    \/ \E e \in AllIds : getUserFails(e)
    \/ \E e \in AllEntries : insertEmojiFails(e)
    \/ \E b \in AllBatches : batchInsertEmojisFails(b)
    \/ \E n \in EmojiNameInputs : getEmojiFails(n)
    \/ listEmojisFails
    \/ purgeExpiredItemsFails
    \/ \E e \in AllIds : purgeUserCacheFails(e)
    \/ purgeAllFails
    \/ \E f \in BOOLEAN : healthCheck(f)

SpecFailure == Init /\ [][NextFailure]_vars

(* The report queries with a database that may reject the statements of a
   call: persisted rows, an empty memo *)
InitQueryFailure ==
    /\ now = 0
    /\ uuid = 0
    /\ users = {}
    /\ emojis = {}
    /\ userUpdateQueue = <<>>
    /\ isProcessingQueue = FALSE
    /\ slackWrapper = FALSE
    /\ drains = <<>>
    /\ ticks = 0
    /\ upstreamCalls = 0
    /\ dropped = {}
    /\ ret = [op |-> "none"]
    /\ InitStarted
    /\ traffic10min = {PersistedHealth(3)}
    /\ trafficHourly = {PersistedHealth(2)}
    /\ trafficDaily = {PersistedHealth(1)}
    /\ userAgentStats = {[user_agent |-> "curl/8.0", hits |-> 6, last_seen |-> 0]}
    /\ requests = 0
    /\ memo = <<>>
QueryDays == {7}
NextQueryFailure ==
    \/ \E t \in {cacheTTL - 1, cacheTTL} : Advance(t)
    \/ \E d \in QueryDays : getAnalytics(d)
    \/ \E d \in QueryDays : getEssentialStats(d)
    \/ \E d \in QueryDays : getChartData(d)
    \/ \E d \in QueryDays : getUserAgents(d)
    \/ \E d \in QueryDays : getAnalyticsFails(d)
    \/ \E d \in QueryDays : getEssentialStatsFails(d)
    \/ \E d \in QueryDays : getChartDataFails(d)
    \/ \E d \in QueryDays : getUserAgentsFails(d)

SpecQueryFailure == InitQueryFailure /\ [][NextQueryFailure]_vars

(* The startup: the process is down on a database file that is either new or
   was written by a release before the migration manager existed; it starts
   with one of several builds, serves, stops and starts again *)
Builds == {<<0, 0, 0>>, <<0, 3, 2>>, <<0, 4, 0>>, <<0, 4, 1>>}

LegacyRows ==
    {LegacyRow(1, <<"users", "U1", "x">>, 200, "curl/8.0", 100500, 50),
     LegacyRow(2, <<"emojis", "e1", "x">>, 200, "", 700000, 0),
     LegacyRow(3, <<"foo">>, 404, "curl/8.0", 700000, 20)}

\* no pass has returned yet
NoResult == [success |-> FALSE, migrationsApplied |-> 0 - 1, lastAppliedVersion |-> NoVersion]

StartupInstants == {1000, 2000}

InitMigrate ==
    /\ now = 0
    /\ uuid = 0
    /\ users = {}
    /\ emojis = {}
    /\ userUpdateQueue = <<>>
    /\ isProcessingQueue = FALSE
    /\ slackWrapper = FALSE
    /\ drains = <<>>
    /\ ticks = 0
    /\ upstreamCalls = 0
    /\ dropped = {}
    /\ ret = [op |-> "none"]
    /\ InitAnalytics
    /\ pc = "down"
    /\ build = NoVersion
    /\ migrations = <<>>
    /\ requestAnalytics \in {[exists |-> FALSE, rows |-> {}],
                             [exists |-> TRUE, rows |-> LegacyRows]}
    /\ pass = NoPass
    /\ passResult = NoResult
    /\ upLog = <<>>
    /\ starts = 0
    /\ request = NoRequest
    /\ response = NoResponse

NextMigrate ==
    \/ \E b \in Builds, f \in BOOLEAN : Start(b, f)
    \/ Skip
    \/ \E k \in 0..2, f \in BOOLEAN : Apply(k, f)
    \/ Finish
    \/ Stop
    \/ \E t \in StartupInstants : Advance(t)
    \/ Idle /\ purgeAll
    \/ Idle /\ purgeExpiredItems

SpecMigrate == InitMigrate /\ [][NextMigrate]_vars

(* The startup followed by the operations of the cache: build 0.4.0 *)
NextStartup ==
    \/ \E f \in BOOLEAN : Start(<<0, 4, 0>>, f)
    \/ Skip
    \/ \E k \in 0..2, f \in BOOLEAN : Apply(k, f)
    \/ Finish
    \/ Stop
    \/ Idle /\ requests = 0 /\ recordRequest(MemoRequest, 0)
    \/ Idle /\ uuid = 0 /\ insertUser(<<"U", "A">>, Stored, 24)
    \/ Idle /\ getUser(<<"U", "A">>)
    \/ Idle /\ setSlackWrapper
    \/ Idle /\ ticks = 0 /\ processUserUpdateQueue

SpecStartup == InitMigrate /\ [][NextStartup]_vars

----------------------------------------------------------------------------
(* The analytics wrapper and the two user handlers.  A pathname is the
   sequence of its segments; the segment of the user id is a sequence of
   characters.  Every await of a handler ends a step. *)

\* the handlers and the paths of their routes
Handlers == {"handleGetUser", "handleUserRedirect"}
RoutePath(handler) ==
    IF handler = "handleGetUser" THEN <<"users", ":id">> ELSE <<"users", ":id", "r">>

\* the pathname of a request that the route of the handler matches
Pathname(handler, id) ==
    IF handler = "handleGetUser" THEN <<"users", id>> ELSE <<"users", id, "r">>

\* url.pathname.split("/").pop() in handleGetUser, parts[2] in handleUserRedirect
\* (parts[0] is the empty string before the first slash)
pathUserId(handler, pathname) ==
    IF handler = "handleGetUser" THEN pathname[Len(pathname)] ELSE pathname[2]

\* the argument of slackApp.getUserInfo
upstreamUserId(handler, userId) ==
    IF handler = "handleGetUser" THEN userId ELSE toUpperCase(userId)

\* a || b on strings
OrElse(a, b) == IF a # "" THEN a ELSE b

\* what Slack answers: a full profile, or one without names and images
SlackUser(id, realName, name, pronouns, image512, image192) ==
    [id |-> id, real_name |-> realName, name |-> name, pronouns |-> pronouns,
     image_512 |-> image512, image_192 |-> image192]
SlackUsers(id) == {SlackUser(toUpperCase(id), "d2", "n2", "p2", "i2", "j2"),
                   SlackUser(toUpperCase(id), "", "", "", "", "")}

\* the arguments of cache.insertUser after a fetch
fetchedProfile(slackUser) ==
    [displayName |-> OrElse(slackUser.real_name, OrElse(slackUser.name, "Unknown")),
     pronouns |-> OrElse(slackUser.pronouns, ""),
     imageUrl |-> OrElse(slackUser.image_512, OrElse(slackUser.image_192, ""))]

\* !user || !user.imageUrl
Missing(user) == user = NULL \/ user.imageUrl = ""

\* the status handed to recordAnalytics and the status of the returned
\* Response, on each path of the two handlers
OnHit(handler) ==
    IF handler = "handleGetUser" THEN [recorded |-> 200, status |-> 200]
    ELSE [recorded |-> 302, status |-> 302]
OnFetched(handler) ==
    IF handler = "handleGetUser" THEN [recorded |-> 200, status |-> 200]
    ELSE [recorded |-> 302, status |-> 302]
\* a redirect that records the 404 of the JSON handler
OnNotFoundAs404(handler) ==
    IF handler = "handleGetUser" THEN [recorded |-> 404, status |-> 404]
    ELSE [recorded |-> 404, status |-> 307]
OnNotFound(handler) ==
    IF handler = "handleGetUser" THEN [recorded |-> 404, status |-> 404]
    ELSE [recorded |-> 307, status |-> 307]
OnError(handler) == [recorded |-> 500, status |-> 500]

\* path.includes(":")
HasParam(path) == \E i \in DOMAIN path : path[i] = ":id"

\* what a step of the wrapper that calls no Cache method leaves alone
CacheUnchanged ==
    UNCHANGED <<startupVars, analyticsVars, now, uuid, users, emojis, userUpdateQueue,
                isProcessingQueue, slackWrapper, drains, ticks, upstreamCalls, dropped,
                ret>>

\* new Response(response.body, {status: response.status, ..., headers})
addCorsHeaders(res) == [res EXCEPT !.cors = TRUE]

\* the closure recordAnalytics of the request inside the wrapper
recordAnalytics(statusCode, failAt) ==
    LET path == RoutePath(request.handler)
        analyticsPath == IF HasParam(path) THEN request.pathname ELSE path
    IN recordRequestCall(Request(analyticsPath, statusCode, request.userAgent,
                                 now - request.startTime), failAt)

\* await recordAnalytics(...): the call, then the handler waits once more
\* before its return statement
RecordThenReturn(outcome, failAt) ==
    /\ recordAnalytics(outcome.recorded, failAt)
    /\ request' = [request EXCEPT !.pc = "return",
                                  !.recorded = Append(@, outcome.recorded),
                                  !.status = outcome.status]
    /\ UNCHANGED response

\* the function withAnalytics returns, called with a request: the preflight
\* answer, or the handler up to its first await (cache.getUser has run)
withAnalytics(handler, method, id, userAgent) ==
    /\ pc = "serving"
    /\ request = NoRequest
    /\ requests < MaxRequests
    /\ uuid < MaxUuid
    /\ IF method = "OPTIONS"
       THEN /\ response' = [type |-> "response", status |-> 204, cors |-> TRUE,
                            handler |-> "none", recorded |-> <<>>]
            /\ UNCHANGED request
            /\ CacheUnchanged
       ELSE /\ getUserCall(pathUserId(handler, Pathname(handler, id)))
            /\ request' = [pc |-> "getUser", handler |-> handler,
                           pathname |-> Pathname(handler, id), userAgent |-> userAgent,
                           startTime |-> now, user |-> ret'.val, recorded |-> <<>>,
                           status |-> 0]
            /\ response' = NoResponse

\* the handler after await cache.getUser: a usable record is answered from
\* the cache, otherwise Slack is asked
handlerAfterGetUser(failAt) ==
    /\ request.pc = "getUser"
    /\ IF Missing(request.user)
       THEN /\ request' = [request EXCEPT !.pc = "getUserInfo"]
            /\ UNCHANGED response
            /\ CacheUnchanged
       ELSE RecordThenReturn(OnHit(request.handler), failAt)

\* slackApp.getUserInfo resolves: cache.insertUser is called
handlerFetched(slackUser) ==
    /\ request.pc = "getUserInfo"
    /\ slackUser \in SlackUsers(upstreamUserId(request.handler,
                                   pathUserId(request.handler, request.pathname)))
    /\ insertUserCall(slackUser.id, fetchedProfile(slackUser), 0)
    /\ request' = [request EXCEPT !.pc = "insertUser"]
    /\ UNCHANGED response

\* slackApp.getUserInfo rejects: the catch block
handlerCatch(message, failAt) ==
    /\ request.pc = "getUserInfo"
    /\ IF message = "user_not_found"
       THEN RecordThenReturn(OnNotFound(request.handler), failAt)
       ELSE RecordThenReturn(OnError(request.handler), failAt)

\* the handler after await cache.insertUser
handlerAfterInsertUser(failAt) ==
    /\ request.pc = "insertUser"
    /\ RecordThenReturn(OnFetched(request.handler), failAt)

\* the handler returns its Response; the wrapper adds the CORS headers
handlerReturn ==
    /\ request.pc = "return"
    /\ response' = addCorsHeaders([type |-> "response", status |-> request.status,
                                   cors |-> FALSE, handler |-> request.handler,
                                   recorded |-> request.recorded])
    /\ request' = NoRequest
    /\ CacheUnchanged

Methods == {"GET", "OPTIONS"}
WrapperIds == {<<"U", "A">>, <<"u", "b">>}
WrapperAgents == {"curl/8.0"}
\* 50 ms later
WrapperInstants == {50}
ErrorMessages == {"user_not_found", "fetch failed"}

NextWrapper ==
    \/ \E h \in Handlers, m \in Methods, id \in WrapperIds, ua \in WrapperAgents :
          withAnalytics(h, m, id, ua)
    \/ \E f \in 0..1 : handlerAfterGetUser(f)
    \/ \E id \in WrapperIds : \E u \in SlackUsers(id) : handlerFetched(u)
    \/ \E m \in ErrorMessages, f \in 0..1 : handlerCatch(m, f)
    \/ \E f \in 0..1 : handlerAfterInsertUser(f)
    \/ handlerReturn
    \/ \E t \in WrapperInstants : Advance(t)

SpecWrapper == Init /\ [][NextWrapper]_vars
----------------------------------------------------------------------------
(* Properties of the user table *)

NotExpired(key) == \E r \in SelectUser(users, key) : r.expiration >= now

\* C1: case-insensitive round trip.  When insertUser(e, d, p, u) has succeeded on
\* a store with no row for e and the next call is getUser(e') for a case variant
\* e' of e, made while the row's expiration has not passed, the call returns a
\* record with userId = upper-case(e) and displayName, pronouns, imageUrl = d, p, u.
RoundTrip ==
    [][(/\ ret.op = "insertUser" /\ ret.fresh /\ ret.val.v
        /\ \E x \in UserIdInputs : getUser(x) /\ toUpperCase(x) = toUpperCase(ret.userId)
        /\ NotExpired(toUpperCase(ret.userId)))
       => (/\ ret'.val.type = "user"
           /\ ret'.val.userId = toUpperCase(ret.userId)
           /\ ret'.val.displayName = ret.profile.displayName
           /\ ret'.val.pronouns = ret.profile.pronouns
           /\ ret'.val.imageUrl = ret.profile.imageUrl)]_vars

\* a single insertUser("UA", ...) on the empty store, then getUser("ua") returned a record
RoundTripWitness ==
    /\ uuid = 1
    /\ ret.op = "getUser"
    /\ ret.userId = <<"u", "a">>
    /\ ret.val.type = "user"
    /\ ret.val.userId = <<"U", "A">>

\* C2: last write wins.  An insertUser(e, d2, p2, u2) on a store that already holds
\* a row for e leaves a single row for e whose imageUrl and expiration come from
\* this call and whose displayName is this call's d2.
LastWriteWins ==
    [][\A e \in UserIdInputs, p \in Profiles, t \in TtlInputs :
        (insertUser(e, p, t) /\ SelectUser(users, toUpperCase(e)) # {})
        => (/\ Cardinality(SelectUser(users', toUpperCase(e))) = 1
            /\ \A r \in SelectUser(users', toUpperCase(e)) :
                 /\ r.imageUrl = p.imageUrl
                 /\ r.expiration = now + (IF t # 0 THEN t * HourMs ELSE UserTTL)
                 /\ r.displayName = p.displayName)]_vars

\* C3: in every reachable state the users table holds at most one row per
\* upper-cased userId and the emojis table at most one row per lower-cased name.
OneRowPerKey ==
    /\ \A r1, r2 \in users : toUpperCase(r1.userId) = toUpperCase(r2.userId) => r1 = r2
    /\ \A e1, e2 \in emojis : toLowerCase(e1.name) = toLowerCase(e2.name) => e1 = e2

\* both spellings of one user id and of one emoji name have been inserted, and a
\* background refresh has written a row, and each table holds one row
OneRowPerKeyWitness ==
    /\ uuid = MaxUuid
    /\ Cardinality(users) = 1
    /\ Cardinality(emojis) = 1
    /\ \E r \in users : r.imageUrl = Fetched.imageUrl /\ r.displayName = Stored.displayName

\* C4: when the stored row's expiration is in the past, getUser(x), for any case
\* variant x of its userId, returns null, and afterwards the users table holds
\* no row for that userId.
ExpiredUserRemoved ==
    [][\A x \in UserIdInputs :
        (getUser(x) /\ \E r \in SelectUser(users, toUpperCase(x)) : r.expiration < now)
        => (ret'.val = NULL /\ SelectUser(users', toUpperCase(x)) = {})]_vars

\* C6: a read of a row that is older than the staleness threshold (its age being
\* now - (expiration - TTL)) and not expired returns the record, sets the stored
\* expiration to now + TTL and leaves the identifier in the pending set exactly
\* once; the pending set never holds an identifier twice.
Age(r) == now - (r.expiration - UserTTL)
Occurrences(q, x) == Cardinality({i \in DOMAIN q : q[i] = x})
TouchToRefresh ==
    /\ [](\A x \in Range(userUpdateQueue) : Occurrences(userUpdateQueue, x) = 1)
    /\ [][\A x \in RetryIds : \A r \in SelectUser(users, toUpperCase(x)) :
           (getUser(x) /\ r.expiration >= now /\ Age(r) > StaleThreshold)
           => (/\ ret'.val = UserVal(r)
               /\ \A r2 \in SelectUser(users', toUpperCase(x)) :
                    r2.expiration = now + UserTTL
               /\ SelectUser(users', toUpperCase(x)) # {}
               /\ Occurrences(userUpdateQueue', toUpperCase(x)) = 1)]_vars

\* a read has returned a stale row and extended it while its identifier was
\* already pending from an earlier read, and the identifier is pending once
TouchToRefreshWitness ==
    /\ ret.op = "getUser"
    /\ ret.val.type = "user"
    /\ ret.val.expiration - UserTTL < now - StaleThreshold
    /\ ret.pending
    /\ Occurrences(userUpdateQueue, toUpperCase(ret.userId)) = 1
    /\ \E r \in users : r.userId = ret.val.userId /\ r.expiration = now + UserTTL

\* C30: a read of a record less than the staleness threshold after insertUser
\* wrote it, whatever expirationHours the insert was given, returns the record
\* and leaves its expiration and the pending set as they were.  (While the
\* last call of the cache is that insertUser, the row is as it was written:
\* its expiration is the instant of the insert plus the hours of the insert.)
InsertHours(expirationHours) ==
    IF expirationHours # 0 THEN expirationHours ELSE userDefaultTTL
RealAge(r, expirationHours) == now - (r.expiration - InsertHours(expirationHours) * HourMs)
FreshReadLeavesRecord ==
    [][\A x \in UserIdInputs : \A r \in SelectUser(users, toUpperCase(x)) :
          (/\ ret.op = "insertUser" /\ ret.val = Bool(TRUE)
           /\ toUpperCase(ret.userId) = toUpperCase(x)
           /\ RealAge(r, ret.expirationHours) < StaleThreshold
           /\ getUser(x))
          => (/\ ret'.val = UserVal(r)
              /\ users' = users
              /\ userUpdateQueue' = userUpdateQueue)]_vars

----------------------------------------------------------------------------
(* Properties of the emoji table *)

ExpiredEmoji(name) == \E r \in emojis : r.name = toLowerCase(name) /\ r.expiration < now

\* C5 as stated: when the stored emoji's expiration is in the past, getEmoji(name)
\* returns null and the call removes the row from the emojis table.
ExpiredEmojiRemoved ==
    [][\A n \in EmojiNameInputs :
        (getEmoji(n) /\ ExpiredEmoji(n))
        => (ret'.val = NULL /\ ~\E r \in emojis' : r.name = toLowerCase(n))]_vars

\* C5 as amended: when the stored emoji's expiration is in the past,
\* getEmoji(name) returns null and leaves the emojis table as it was; the
\* expired row stays until purgeExpiredItems, purgeAll or a later upsert.
ExpiredEmojiAbsent ==
    [][\A n \in EmojiNameInputs :
        (getEmoji(n) /\ ExpiredEmoji(n)) => (ret'.val = NULL /\ emojis' = emojis)]_vars

\* getEmoji has returned null for a name whose expired row is still stored
ExpiredEmojiWitness ==
    /\ ret.op = "getEmoji"
    /\ ret.val = NULL
    /\ ExpiredEmoji(ret.name)

\* C10: batchInsertEmojis is all-or-nothing.  A batch with a malformed entry
\* stores and updates nothing and returns false; any other batch returns true
\* and leaves a row, with the batch's expiration, for every entry.  The call is
\* one step, so a listEmojis sees the table before or after it.
BatchAtomic ==
    [][\A b \in Batches, t \in EmojiTtlInputs :
        batchInsertEmojis(b, t)
        => IF \E i \in DOMAIN b : ~b[i].wellFormed
           THEN emojis' = emojis /\ ret'.val = Bool(FALSE)
           ELSE /\ ret'.val = Bool(TRUE)
                /\ \A i \in DOMAIN b : \E r \in emojis' :
                     /\ r.name = toLowerCase(b[i].name)
                     /\ r.expiration = EmojiExpiration(t)]_vars

\* a batch whose second entry is malformed has returned false and its first
\* entry is not stored
BatchAtomicWitness ==
    /\ ret.op = "batchInsertEmojis"
    /\ ret.val = Bool(FALSE)
    /\ Len(ret.entries) = 2
    /\ ret.entries[1].wellFormed
    /\ ~\E r \in emojis : r.name = toLowerCase(ret.entries[1].name)

\* the lower-cased names of a batch, and the names listEmojis returns from a table
BatchNames(b) == {toLowerCase(b[i].name) : i \in DOMAIN b}
ListedNames(table) == {r.name : r \in listEmojisQuery(table)}

\* C11 as stated: after the refresh (the onEmojiExpired callback's
\* batchInsertEmojis(B), default expiration) has stored batch B, the names
\* listEmojis returns are exactly the lower-cased names of B.
RefreshReplaces ==
    [][\A b \in Batches :
        (batchInsertEmojis(b, 0) /\ ret'.val = Bool(TRUE))
        => ListedNames(emojis') = BatchNames(b)]_vars

\* C11 as amended: after the refresh has stored batch B, the names listEmojis
\* returns are the lower-cased names of B together with the names it returned
\* before the refresh; an emoji absent from B stays listed until it expires.
RefreshMerges ==
    [][\A b \in Batches :
        (batchInsertEmojis(b, 0) /\ ret'.val = Bool(TRUE))
        => ListedNames(emojis') = BatchNames(b) \cup ListedNames(emojis)]_vars

\* a refresh has stored a batch and an emoji that is absent from the batch is
\* still listed
RefreshMergesWitness ==
    /\ ret.op = "batchInsertEmojis"
    /\ ret.val = Bool(TRUE)
    /\ \E n \in ListedNames(emojis) : n \notin BatchNames(ret.entries)

----------------------------------------------------------------------------
(* Properties of the refresh queue *)

\* C7: single-flight drain.  At most one drain is in progress at any moment, and
\* a timer tick that fires while a drain is in progress calls no provider and
\* leaves the pending set and the drain as they are.
SingleFlight ==
    /\ [](Len(drains) <= 1 /\ (isProcessingQueue <=> Len(drains) = 1))
    /\ [][(processUserUpdateQueue /\ isProcessingQueue)
          => UNCHANGED <<userUpdateQueue, upstreamCalls, drains, users>>]_vars

\* a tick has returned at once while a drain was awaiting the provider
SingleFlightWitness ==
    /\ ret.op = "processUserUpdateQueue"
    /\ ret.val = Bool(FALSE)
    /\ slackWrapper
    /\ Len(userUpdateQueue) > 0
    /\ Len(drains) = 1
    /\ drains[1].pc = "getUserInfo"

\* C8: a drain issues at most 3 getUserInfo calls whatever the size of the
\* pending set, so the drains together issue at most 3 calls per timer tick.
BoundedBatch ==
    /\ \A k \in DOMAIN drains : drains[k].calls <= QueueBatch
    /\ upstreamCalls <= QueueBatch * ticks

\* a drain that started on four pending identifiers is at its third call
BoundedBatchWitness ==
    /\ Len(drains) = 1
    /\ drains[1].calls = QueueBatch
    /\ \E q \in Range(userUpdateQueue) : q \notin Range(drains[1].usersToUpdate)
    /\ Len(userUpdateQueue) = 2

\* C9: a drain removes every identifier of its batch from the pending set,
\* whether the fetch and write-back succeed, the provider reports not-found or
\* another error occurs; and no drain fetches an identifier whose refresh
\* failed unless a later getUser has enqueued it again.
Current(k) == drains[k].usersToUpdate[drains[k].i]
DrainRemoves ==
    /\ [](\A k \in DOMAIN drains :
            drains[k].pc = "getUserInfo" => Current(k) \notin dropped)
    /\ [][\A k \in DOMAIN drains :
           (DrainInserted(k) \/ \E err \in FetchErrors : DrainFailed(k, err))
           => Current(k) \notin Range(userUpdateQueue')]_vars

\* an identifier whose refresh failed was enqueued again by a read and is being
\* fetched by a later drain
DrainRemovesWitness ==
    /\ ticks = 2
    /\ upstreamCalls = 2
    /\ uuid = 0
    /\ Len(drains) = 1
    /\ drains[1].usersToUpdate = << <<"U", "A">> >>
    /\ dropped = {}
----------------------------------------------------------------------------
(* Properties of store-level failures *)

\* C12: every entity store operation (insertUser, getUser, insertEmoji,
\* batchInsertEmojis, getEmoji, listEmojis, purgeExpiredItems, purgeUserCache,
\* purgeAll, healthCheck) that meets a store-level failure returns false, absent
\* or an empty result; no exception leaves the call.
FailureContained ==
    ("failed" \in DOMAIN ret /\ ret.failed) => ret.val # Throw
----------------------------------------------------------------------------
(* Properties of the request analytics *)

\* the rows of a table in one bucket with one status code
InWindow(table, bucket, statusCode) ==
    {r \in table : r.bucket = bucket /\ r.status_code = statusCode}
\* the first of two calls is what the 10-minute window holds: one row with
\* hits = 1 and its sample, and the user agent has been seen once
FirstRecorded(r1) ==
    /\ InWindow(traffic10min, BucketStart(NowSec, 600), r1.statusCode)
         = {BucketRow(BucketStart(NowSec, 600), r1.endpoint, r1.statusCode, 1,
                      r1.responseTime)}
    /\ \E u \in userAgentStats : u.user_agent = r1.userAgent /\ u.hits = 1
UserAgentHits(table, userAgent, n) ==
    {u \in table : u.user_agent = userAgent} # {}
    /\ \A u \in table : u.user_agent = userAgent => u.hits = n

Counted(before, after, bucket, req) ==
    /\ Cardinality(SelectBucket(after, bucket, req.endpoint, req.statusCode)) = 1
    /\ \A r \in SelectBucket(after, bucket, req.endpoint, req.statusCode) :
         IF SelectBucket(before, bucket, req.endpoint, req.statusCode) = {}
         THEN r.hits = 1
         ELSE \A r0 \in SelectBucket(before, bucket, req.endpoint, req.statusCode) :
                r.hits = r0.hits + 1
BucketAligned ==
    /\ [](/\ \A r \in traffic10min : r.bucket % 600 = 0
          /\ \A r \in trafficHourly : r.bucket % 3600 = 0
          /\ \A r \in trafficDaily : r.bucket % 86400 = 0)
    /\ [][\A req \in Requests :
           recordRequest(req, 0)
           => LET t == now \div 1000 IN
              /\ Counted(traffic10min, traffic10min', t - (t % 600), req)
              /\ Counted(trafficHourly, trafficHourly', t - (t % 3600), req)
              /\ Counted(trafficDaily, trafficDaily', t - (t % 86400), req)]_vars

\* a request recorded a day, an hour and 700 s after the start is counted in
\* three buckets with three different starts
BucketAlignedWitness ==
    /\ ret.op = "recordRequest"
    /\ ret.failAt = 0
    /\ now = Day + 3600000 + 700000
    /\ \E r \in traffic10min : r.bucket = 90600
    /\ \E r \in trafficHourly : r.bucket = 90000
    /\ \E r \in trafficDaily : r.bucket = 86400

\* C15: the bucket tables are append-or-increment only.  No step lowers the hits
\* or the total_response_time of a row that exists before and after it, and
\* each write of recordRequest that is carried out creates its row with hits = 1
\* or adds exactly 1 to hits and the sample to total_response_time.
SameKey(r1, r2) ==
    r1.bucket = r2.bucket /\ r1.endpoint = r2.endpoint /\ r1.status_code = r2.status_code
NotLowered(before, after) ==
    \A r1 \in before, r2 \in after :
        SameKey(r1, r2) => /\ r2.hits >= r1.hits
                           /\ r2.total_response_time >= r1.total_response_time
Incremented(before, after, bucket, req) ==
    LET old == SelectBucket(before, bucket, req.endpoint, req.statusCode)
    IN /\ IF old = {}
          THEN after = before \cup {BucketRow(bucket, req.endpoint, req.statusCode, 1,
                                              req.responseTime)}
          ELSE after = (before \ old)
                       \cup {BucketRow(bucket, req.endpoint, req.statusCode, r.hits + 1,
                                       r.total_response_time + req.responseTime) :
                             r \in old}
AppendOrIncrement ==
    [][/\ NotLowered(traffic10min, traffic10min')
       /\ NotLowered(trafficHourly, trafficHourly')
       /\ NotLowered(trafficDaily, trafficDaily')
       /\ \A req \in Requests, f \in FailAts :
            recordRequest(req, f)
            => /\ IF f = 0 \/ f > 1
                  THEN Incremented(traffic10min, traffic10min',
                                   BucketStart(NowSec, 600), req)
                  ELSE traffic10min' = traffic10min
               /\ IF f = 0 \/ f > 2
                  THEN Incremented(trafficHourly, trafficHourly',
                                   BucketStart(NowSec, 3600), req)
                  ELSE trafficHourly' = trafficHourly
               /\ IF f = 0 \/ f > 3
                  THEN Incremented(trafficDaily, trafficDaily',
                                   BucketStart(NowSec, 86400), req)
                  ELSE trafficDaily' = trafficDaily]_vars

\* the same request was recorded twice in one day, in two different hours: its
\* daily row was created and then incremented
AppendOrIncrementWitness ==
    /\ ret.op = "recordRequest"
    /\ \E r \in trafficDaily : r.hits = 2 /\ r.total_response_time = 300
    /\ \A r \in trafficHourly : r.hits = 1

\* C16: recordRequest returns normally, whichever of its statements fails.
NeverThrows ==
    ret.op = "recordRequest" => ret.val = Undefined

\* the second statement of a call failed: the call returned, the 10-minute
\* table has its row and the hourly table has none
NeverThrowsWitness ==
    /\ ret.op = "recordRequest"
    /\ ret.failAt = 2
    /\ ret.val = Undefined
    /\ traffic10min # {}
    /\ trafficHourly = {}

\* C18 as stated: after purgeExpiredItems has run at time t, the 10-minute table
\* holds no row whose bucket starts more than 24 hours before t, and the hourly
\* and daily tables are unchanged.
PrunedAfterDay ==
    [][purgeExpiredItems
       => /\ \A r \in traffic10min' : ~(r.bucket * 1000 < now - Day)
          /\ UNCHANGED <<trafficHourly, trafficDaily>>]_vars

\* C18 as amended: after purgeExpiredItems has run at time t, the 10-minute
\* table holds exactly its former rows whose bucket is not before the start of
\* the 10-minute window that contains t - 24 h (a row whose window contains
\* t - 24 h is kept), and the hourly and daily tables are unchanged.
PrunedAfterDayWindow ==
    [][purgeExpiredItems
       => /\ traffic10min'
               = {r \in traffic10min :
                    r.bucket >= 600 * (((now \div 1000) - 86400) \div 600)}
          /\ UNCHANGED <<trafficHourly, trafficDaily>>]_vars

\* the housekeeping ran a day and 1000 s after the start: of two hits of the
\* first hour it removed the one in bucket 0 and kept the one in bucket 600,
\* whose window contains the instant 24 hours earlier
PrunedAfterDayWindowWitness ==
    /\ ret.op = "purgeExpiredItems"
    /\ now = Day + 1000000
    /\ traffic10min = {BucketRow(600, <<"health">>, 500, 1, 0)}
    /\ trafficHourly = {BucketRow(0, <<"health">>, 500, 2, 0)}
----------------------------------------------------------------------------
(* Properties of the reports and the memo cache *)

QueryInputs == {<<"analytics", 1>>, <<"analytics", 30>>, <<"essential", 31>>,
                <<"charts", 2>>}
QueryOf(q) ==
    CASE q[1] = "analytics" -> getAnalytics(q[2])
      [] q[1] = "essential" -> getEssentialStats(q[2])
      [] q[1] = "charts" -> getChartData(q[2])

\* the memo is as the program fills it: every entry holds a report of its kind
MemoKeys(m) == {m[i].key : i \in DOMAIN m}

\* C17: every analytics query (full report, essential stats, chart data) that
\* computes its report reads exactly one of the three bucket tables, chosen from
\* days alone: the 10-minute table when days <= 1, the hourly table when
\* 1 < days <= 30, the daily table when days > 30; the report is what the rows
\* of that table give.
ExpectedTable(days) ==
    IF days <= 1 THEN [table |-> "traffic_10min", bucketSize |-> 600]
    ELSE IF days > 30 THEN [table |-> "traffic_daily", bucketSize |-> 86400]
    ELSE [table |-> "traffic_hourly", bucketSize |-> 3600]
ResolutionByDays ==
    [][\A q \in QueryInputs :
        (QueryOf(q) /\ ~ret'.cached)
        => /\ ret'.read = {ExpectedTable(q[2]).table}
           /\ ret'.val = ReportFrom(q[1], ExpectedTable(q[2]), q[2])]_vars

\* the full report for 30 days was computed from the hourly table, whose rows
\* differ from those of the other two tables
ResolutionByDaysWitness ==
    /\ ret.op = "getAnalytics"
    /\ ret.days = 30
    /\ ~ret.cached
    /\ ret.read = {"traffic_hourly"}
    /\ ret.val.totalRequests = SumHits(trafficHourly)
    /\ ret.val.totalRequests # SumHits(traffic10min)
    /\ ret.val.totalRequests # SumHits(trafficDaily)

\* C19: when a store into the memo cache evicts an entry, the evicted entry has
\* the earliest timestamp of all entries: no entry that remains is older than it.
EvictsOldest ==
    [][\A i \in DOMAIN memo :
        memo[i].key \notin MemoKeys(memo')
        => \A j \in DOMAIN memo' : memo[i].timestamp <= memo'[j].timestamp]_vars

QueryFailureContained ==
    (ret.op \in {"getAnalytics", "getEssentialStats", "getChartData", "getUserAgents"}
        /\ "failed" \in DOMAIN ret /\ ret.failed)
    => ret.val = EmptyReport(ret.kind)

----------------------------------------------------------------------------
(* Properties of the startup and the migration manager *)

Last(q) == q[Len(q)]
StoreNext == [requestAnalytics |-> requestAnalytics', traffic10min |-> traffic10min',
              trafficHourly |-> trafficHourly', trafficDaily |-> trafficDaily',
              userAgentStats |-> userAgentStats']
IsVirtual(r) == r.description = "Virtual migration for existing installation"
Versions(table) == {table[i].version : i \in DOMAIN table}
\* the order of three-part versions, number by number
VersionLess(a, b) ==
    \/ a[1] < b[1]
    \/ a[1] = b[1] /\ a[2] < b[2]
    \/ a[1] = b[1] /\ a[2] = b[2] /\ a[3] < b[3]
\* the constructor begins
StartStep == pc = "down" /\ pc' # "down"
\* the loop of the pass calls up
UpCalled == upLog' # upLog

\* C22: a pass that runs on a store the same build has already migrated (its
\* last pass returned success) writes no virtual record, calls no up, returns
\* zero migrations applied and leaves the migrations table as it was.
Idempotent ==
    [][/\ (StartStep /\ passResult.success /\ build' = build) => migrations' = migrations
       /\ (pc = "pass" /\ pass.rerun)
            => /\ migrations' = migrations
               /\ ~UpCalled
               /\ pc' = "serving" => passResult'.success /\ passResult'.migrationsApplied = 0
      ]_vars

\* C22 witness: the second pass of build 0.4.0 has gone through the whole loop
\* on the store its first pass migrated: three ups in the log, all of the
\* first start, and the four records of the first pass.
IdempotentWitness ==
    /\ pc = "pass" /\ pass.rerun /\ pass.i = 4
    /\ starts = 2 /\ build = <<0, 4, 0>>
    /\ Len(upLog) = 3 /\ \A i \in DOMAIN upLog : upLog[i].start = 1
    /\ Len(migrations) = 4

\* C23: a migration whose up fails part of the way leaves no record and no
\* store change: a record of a migration exists only if a call of its up has
\* completed without error, and a turn of the loop whose up failed leaves the
\* migrations table and the tables of the store as they were.
MigrationAtomic ==
    /\ [](\A j \in DOMAIN migrations :
            ~IsVirtual(migrations[j])
            => \E i \in DOMAIN upLog : /\ upLog[i].version = migrations[j].version
                                       /\ ~upLog[i].rejected)
    /\ [][(UpCalled /\ Last(upLog').rejected)
            => migrations' = migrations /\ StoreNext = Store]_vars

\* C24: once a migration of a pass has failed (its up failed, or the
\* transaction threw), no later migration of that pass is applied, and the
\* process does not go on to serve: no cache operation runs after a start
\* whose pass had a failure.
FailedThisStart ==
    \/ \E i \in DOMAIN upLog :
          upLog[i].start = starts /\ (upLog[i].rejected \/ ~upLog[i].committed)
    \/ (pc = "serving" /\ ~passResult.success)
Served == (ret' # ret /\ ret'.op # "start") \/ ticks' # ticks
FailureIsFatal ==
    /\ [][UpCalled => ~FailedThisStart]_vars
    /\ [][Served => ~FailedThisStart]_vars

\* C25: a turn of the loop calls up for the migration it considers exactly
\* when that migration has no record, its version is not greater than the
\* build's and is greater than the last applied version of that moment (if
\* there is one); the ups of one pass are called in ascending version order.
Considered == KnownMigrations[pass.i]
ShouldApply ==
    /\ Considered.version \notin Versions(migrations)
    /\ ~VersionLess(build, Considered.version)
    /\ pass.lastAppliedVersion = NoVersion
          \/ VersionLess(pass.lastAppliedVersion, Considered.version)
AppliesEligible ==
    /\ [][(pc = "pass" /\ pass' # pass /\ pass.i <= Len(KnownMigrations))
            => /\ UpCalled <=> ShouldApply
               /\ UpCalled => Last(upLog').version = Considered.version
               /\ (UpCalled /\ pc' = "pass")
                    => /\ Last(migrations').version = Considered.version
                       /\ pass'.lastAppliedVersion = Considered.version]_vars
    /\ [](\A i, j \in DOMAIN upLog :
            (i < j /\ upLog[i].start = upLog[j].start)
            => VersionLess(upLog[i].version, upLog[j].version))

\* C25 witness: build 0.3.2 on a store of an older release has finished its
\* pass: 0.3.1 was skipped (recorded as the virtual version), 0.3.2 applied,
\* 0.4.0 skipped as a future version.
AppliesEligibleWitness ==
    /\ pc = "serving" /\ build = <<0, 3, 2>> /\ starts = 1
    /\ passResult.success /\ passResult.migrationsApplied = 1
    /\ Len(migrations) = 2
    /\ migrations[1].version = <<0, 3, 1>> /\ IsVirtual(migrations[1])
    /\ migrations[2].version = <<0, 3, 2>>
    /\ Len(upLog) = 1 /\ ~upLog[1].rejected

\* C26 (as stated): a virtual record is written only when no record exists
\* and the store is not a fresh install; on a fresh install no virtual record
\* is written and every known migration up to the build version is applied.
FreshInstall == starts = 0 /\ ~requestAnalytics.exists /\ migrations = <<>>
VirtualNotOnFresh ==
    /\ [][StartStep => (migrations' # migrations => migrations = <<>> /\ ~FreshInstall)]_vars
    /\ []((starts = 1 /\ pc = "serving" /\ passResult.success
            /\ (\A j \in DOMAIN migrations : ~IsVirtual(migrations[j])))
           => \A i \in DOMAIN KnownMigrations :
                 ~VersionLess(build, KnownMigrations[i].version)
                 => KnownMigrations[i].version \in Versions(migrations))

\* C26 (amended): the start of a pass writes a virtual record exactly when
\* the migrations table is empty and the build version is not 0.0.0, on a
\* fresh install as on an existing one; its version is the build version with
\* its lowest non-zero number decremented (patch, else minor with patch 0,
\* else major with minor and patch 0), and the pass then applies only
\* migrations newer than that version.
Preceding(v) ==
    CASE v = <<0, 4, 1>> -> <<0, 4, 0>>
      [] v = <<0, 4, 0>> -> <<0, 3, 0>>
      [] v = <<0, 3, 2>> -> <<0, 3, 1>>
VirtualWhenEmpty ==
    /\ [][(StartStep /\ pc' = "pass")
            => IF migrations = <<>> /\ build' # <<0, 0, 0>>
               THEN /\ Len(migrations') = 1
                    /\ IsVirtual(migrations'[1])
                    /\ migrations'[1].version = Preceding(build')
                    /\ migrations'[1].applied_at = now
                    /\ pass'.lastAppliedVersion = Preceding(build')
               ELSE migrations' = migrations]_vars
    /\ [][UpCalled
            => \A j \in DOMAIN migrations :
                  IsVirtual(migrations[j])
                  => VersionLess(migrations[j].version, Last(upLog').version)]_vars

\* C26 witness: build 0.4.1 has started on a fresh install (no
\* request_analytics table): the pass wrote the virtual record 0.4.0 and
\* called no up.
VirtualWhenEmptyWitness ==
    /\ starts = 1 /\ pc = "serving" /\ build = <<0, 4, 1>>
    /\ ~requestAnalytics.exists
    /\ Len(migrations) = 1 /\ IsVirtual(migrations[1])
    /\ migrations[1].version = <<0, 4, 0>>
    /\ upLog = <<>> /\ passResult.success

\* C27: the migrations table never holds two records of one version, virtual
\* records included, and no step removes or rewrites a record.
OneRecordPerVersion ==
    /\ [](\A i, j \in DOMAIN migrations :
            migrations[i].version = migrations[j].version => i = j)
    /\ [][\A i \in DOMAIN migrations :
            i \in DOMAIN migrations' /\ migrations'[i] = migrations[i]]_vars

\* C27 witness: after two passes (build 0.3.2, then build 0.4.0) on a store of
\* an older release the table holds the virtual record 0.3.1 and the records
\* of 0.3.2 and 0.4.0: three versions in three records.
OneRecordPerVersionWitness ==
    /\ starts = 2 /\ pc = "serving" /\ build = <<0, 4, 0>>
    /\ Len(migrations) = 3
    /\ Versions(migrations) = {<<0, 3, 1>>, <<0, 3, 2>>, <<0, 4, 0>>}
    /\ IsVirtual(migrations[1])
    /\ Len(upLog) = 2 /\ upLog[1].start = 1 /\ upLog[2].start = 2

\* C28: a pass begins only when the process starts, and a get, insert, record
\* or refresh-drain operation runs only once the pass has returned, having
\* either failed or left no known migration that it would still apply.
NothingLeft ==
    \A i \in DOMAIN KnownMigrations :
        ~(/\ KnownMigrations[i].version \notin Versions(migrations)
          /\ ~VersionLess(build, KnownMigrations[i].version)
          /\ passResult.lastAppliedVersion = NoVersion
                \/ VersionLess(passResult.lastAppliedVersion, KnownMigrations[i].version))
PassBeforeOperations ==
    /\ [][(pc # "pass" /\ pc' = "pass") => pc = "down"]_vars
    /\ [][Served => /\ pc = "serving" /\ pc' = "serving" /\ pass = NoPass
                    /\ passResult # NoResult
                    /\ passResult.success => NothingLeft]_vars

\* C28 witness: build 0.4.0 has applied its three migrations on a store of
\* an older release, and after that the cache has recorded a request,
\* inserted a user and read it.
PassBeforeOperationsWitness ==
    /\ pc = "serving" /\ starts = 1
    /\ Len(upLog) = 3 /\ (\A i \in DOMAIN upLog : ~upLog[i].rejected)
    /\ passResult.success /\ passResult.migrationsApplied = 3
    /\ requests = 1 /\ users # {} /\ ret.op = "getUser"
----------------------------------------------------------------------------
(* Properties of the analytics wrapper *)

\* C29: on every path on which handleGetUser or handleUserRedirect produces a
\* response, recordRequest has been called exactly once for the request, with
\* the status code of the response: never twice while the handler runs,
\* exactly once with the status of the Response at its return statement and
\* in what the wrapper hands back
RecordedOncePerResponse ==
    /\ request # NoRequest => Len(request.recorded) <= 1
    /\ (request # NoRequest /\ request.pc = "return") =>
          request.recorded = <<request.status>>
    /\ (response # NoResponse /\ response.handler # "none") =>
          /\ response.recorded = <<response.status>>
          /\ requests >= 1

\* the redirect handler answered 307 for an unknown user and recorded 307
RecordedOncePerResponseWitness ==
    /\ response # NoResponse
    /\ response.handler = "handleUserRedirect"
    /\ response.status = 307
    /\ response.recorded = <<307>>
    /\ request = NoRequest

----------------------------------------------------------------------------
(* Properties of the write-back of a refresh *)

\* C31: when a drain has fetched an identifier and writes it back, the stored
\* record of that identifier holds the fetched displayName, pronouns and
\* imageUrl, and its expiration is the time of the write-back plus the TTL.
RefreshStoresFetched ==
    [][\A k \in DOMAIN drains :
          DrainFetched(k, Fetched)
          => LET userId == drains[k].usersToUpdate[drains[k].i] IN
             /\ SelectUser(users', userId) # {}
             /\ \A r \in SelectUser(users', userId) :
                   /\ r.displayName = Fetched.displayName
                   /\ r.pronouns = Fetched.pronouns
                   /\ r.imageUrl = Fetched.imageUrl
                   /\ r.expiration = now + UserTTL]_vars

----------------------------------------------------------------------------
(* Properties of the last applied migration *)

\* C32: in every reachable state the record that getLastAppliedMigration
\* returns (the one a run takes its 'last applied' version from: the latest
\* applied_at) holds the highest version among all recorded migrations.
LastAppliedIsHighest ==
    migrations # <<>> =>
        \A v \in getLastAppliedMigration(migrations) :
            \A i \in DOMAIN migrations : ~VersionLess(v, migrations[i].version)

----------------------------------------------------------------------------
(* Properties of the size of the memo cache *)

\* C33: after every write of the memo cache has returned, the cache holds at
\* most maxCacheSize (10) entries, whether the write added a key or rewrote a
\* key that was present.
MemoBounded == Len(memo) <= maxCacheSize

\* a miss has stored its report in a full cache: the entry of the oldest key
\* of the start is gone and the cache holds exactly maxCacheSize entries
MemoBoundedWitness ==
    /\ Len(memo) = maxCacheSize
    /\ \A i \in DOMAIN memo : memo[i].key # CacheKey("analytics", 1)
    /\ ret.op = "getChartData" /\ ~ret.cached
    /\ memo[Len(memo)].key = CacheKey("charts", 2)

----------------------------------------------------------------------------
(* Liveness of the refresh queue *)

\* C34: once the upstream provider is injected, with the timer ticking for
\* ever and every upstream call returning or failing, every identifier in the
\* pending set is eventually removed from it, and the in-progress flag is
\* eventually false again whenever a drain has set it.
Pending(x) == x \in Range(userUpdateQueue)
RefreshLiveness ==
    /\ \A x \in QueueIds : (slackWrapper /\ Pending(x)) ~> ~Pending(x)
    /\ isProcessingQueue ~> ~isProcessingQueue

\* two drains have fetched all four identifiers, the second one for the
\* identifier that was enqueued behind the first batch; nothing is pending
\* and no drain is in progress
RefreshLivenessWitness ==
    /\ slackWrapper /\ ~isProcessingQueue /\ drains = <<>>
    /\ userUpdateQueue = <<>>
    /\ upstreamCalls = 4
    /\ ret.op = "getUser" /\ ret.val # NULL

----------------------------------------------------------------------------
(* Reads that enqueue while a drain is in progress *)

\* C35: an enqueue made by getUser while a drain is in progress is not lost:
\* a fetch of the identifier starts after the enqueue, or the identifier is
\* still pending when the drain finishes.  Stated for the drain of a single
\* identifier X whose upstream call is in flight (started by the tick) when a
\* later read of X takes the touch-and-enqueue branch, that read being the
\* last call of the cache: when the upstream call then fails and the drain
\* finishes, no fetch of X has started since the read, so X must be pending.
ReadEnqueued(x) ==
    /\ ret.op = "getUser"
    /\ toUpperCase(ret.userId) = x
    /\ ret.val # NULL
    /\ ret.val.expiration - UserTTL < now - StaleThreshold
    /\ \E r \in SelectUser(users, x) : r.expiration = now + UserTTL
EnqueueNotLost ==
    [][\A k \in DOMAIN drains : \A err \in FetchErrors :
          \A x \in Range(drains[k].usersToUpdate) :
             (/\ drains[k].usersToUpdate = <<x>>
              /\ drains[k].pc = "getUserInfo"
              /\ ReadEnqueued(x)
              /\ DrainFailed(k, err))
             => x \in Range(userUpdateQueue')]_vars

----------------------------------------------------------------------------
(* Purges and the refresh queue *)

\* C36: a purge is not undone by the refresh queue.  Stated for an identifier
\* whose upstream call is in flight when purgeUserCache of it, or purgeAll,
\* is the last call of the cache: when the call resolves, the drain does not
\* insert a row for the identifier.
PurgeNotUndone ==
    [][\A k \in DOMAIN drains :
          LET x == drains[k].usersToUpdate[drains[k].i] IN
          (/\ drains[k].pc = "getUserInfo"
           /\ \/ ret.op = "purgeAll"
              \/ ret.op = "purgeUserCache" /\ toUpperCase(ret.userId) = x
           /\ SelectUser(users, x) = {}
           /\ DrainFetched(k, Fetched))
          => SelectUser(users', x) = {}]_vars

(* The three resolutions of the traffic tables *)

\* WHERE endpoint = ? AND status_code = ?
PairRows(table, endpoint, statusCode) ==
    {r \in table : r.endpoint = endpoint /\ r.status_code = statusCode}

\* C37: every call of recordRequest adds one hit and its response time to the
\* rows of its (endpoint, statusCode) in the 10-minute table, in the hourly
\* table and in the daily table alike, so that the three sums stay equal to
\* each other and to the number of calls: no call is counted in one table and
\* missing from another.
ResolutionsAgree ==
    [][\A req \in Requests, f \in FailAts :
          recordRequest(req, f) =>
             /\ SumHits(PairRows(traffic10min', req.endpoint, req.statusCode))
                  = SumHits(PairRows(traffic10min, req.endpoint, req.statusCode)) + 1
             /\ SumHits(PairRows(trafficHourly', req.endpoint, req.statusCode))
                  = SumHits(PairRows(trafficHourly, req.endpoint, req.statusCode)) + 1
             /\ SumHits(PairRows(trafficDaily', req.endpoint, req.statusCode))
                  = SumHits(PairRows(trafficDaily, req.endpoint, req.statusCode)) + 1
             /\ SumTime(PairRows(traffic10min', req.endpoint, req.statusCode))
                  = SumTime(PairRows(traffic10min, req.endpoint, req.statusCode)) + req.responseTime
             /\ SumTime(PairRows(trafficHourly', req.endpoint, req.statusCode))
                  = SumTime(PairRows(trafficHourly, req.endpoint, req.statusCode)) + req.responseTime
             /\ SumTime(PairRows(trafficDaily', req.endpoint, req.statusCode))
                  = SumTime(PairRows(trafficDaily, req.endpoint, req.statusCode)) + req.responseTime]_vars

(* The alias of an emoji that is stored again.  The entries share one name, in
   two spellings, and differ in their alias *)
AliasEntries ==
    {Entry(<<"x">>, <<>>, "e1"), Entry(<<"X">>, <<"Z">>, "e2"), Entry(<<"x">>, <<"w">>, "e1")}
AliasBatches == UNION {[1..n -> AliasEntries] : n \in 1..MaxBatch}

NextAlias ==
    \/ Tick
    \/ \E e \in AliasEntries, t \in EmojiTtlInputs : insertEmoji(e, t)
    \/ \E b \in AliasBatches, t \in EmojiTtlInputs : batchInsertEmojis(b, t)
    \/ \E e \in AliasEntries : getEmoji(e.name)

SpecAlias == Init /\ [][NextAlias]_vars

\* what getEmoji(entry.name) returns is the entry: its alias, lower-cased or
\* null, and its imageUrl
ServesEntry(entry) ==
    /\ getEmojiLookup(entry.name) # {}
    /\ \A r \in getEmojiLookup(entry.name) :
          /\ EmojiVal(r).alias = toLowerCase(entry.alias)
          /\ EmojiVal(r).imageUrl = entry.imageUrl

\* C38: once insertEmoji has stored an entry, or batchInsertEmojis has stored a
\* batch that ends with it, getEmoji(name) returns that entry's alias
\* (lower-cased, or null) and imageUrl, also when a row for the name existed
\* before with another alias.
StoredEmojiServed ==
    [][/\ \A e \in AliasEntries, t \in EmojiTtlInputs :
             insertEmoji(e, t) => ServesEntry(e)'
       /\ \A b \in AliasBatches, t \in EmojiTtlInputs :
             batchInsertEmojis(b, t) => ServesEntry(b[Len(b)])']_vars

(* Pruning and the short-window reports *)

\* the windows that select the 10-minute table
ShortWindows == {d \in {0, 1} : selectBucketTable(d).table = "traffic_10min"}

\* alignedCutoff for a query issued at instant t
alignedCutoffAt(t, days, bucketSize) ==
    LET cutoffBucket == (t \div 1000) - days * 24 * 60 * 60
    IN cutoffBucket - JsRem(cutoffBucket, bucketSize)

\* C39: purgeExpiredItems never removes a 10-minute row that an analytics
\* query with days <= 1, issued at the time of the purge or later, includes
\* (bucket >= the query's aligned cutoff).
PruneKeepsQueried ==
    [][purgeExpiredItems =>
          \A t \in Instants \cup {now} : \A days \in ShortWindows :
             t >= now =>
                \A r \in traffic10min :
                   r.bucket >= alignedCutoffAt(t, days, selectBucketTable(days).bucketSize)
                      => r \in traffic10min']_vars

\* a purge has removed 10-minute rows, and rows that a one-day query includes
\* are still in the table
PruneKeepsQueriedWitness ==
    /\ ret.op = "purgeExpiredItems"
    /\ SumHits(trafficHourly) > SumHits(traffic10min)
    /\ \E r \in traffic10min : r.bucket >= alignedCutoff(1, selectBucketTable(1).bucketSize)

(* The scheduled housekeeping of the user table.  The job at minute 45 of every
   hour awaits purgeExpiredItems and then lazyUserCleanup *)

\* the offset of local time from UTC, in hours
TimezoneOffsetHours == 0

\* new Date().getHours()
currentHour == ((now \div HourMs) + TimezoneOffsetHours) % 24

\* a cutoff seven days ahead
sevenDaysAhead == now + 7 * 24 * 60 * 60 * 1000

\* Date.now() - 7 * 24 * 60 * 60 * 1000
sevenDaysAgo == now - 7 * 24 * 60 * 60 * 1000

\* Cache.lazyUserCleanup; lucky: Math.random() < 0.1
lazyUserCleanup(lucky) ==
    LET gone == IF currentHour >= 3 /\ currentHour < 5 /\ lucky
                THEN {r \in users : r.expiration < sevenDaysAgo}
                ELSE {}
    IN /\ users' = users \ gone
       /\ ret' = [op |-> "lazyUserCleanup", changes |-> Cardinality(gone), val |-> Undefined]
       /\ UNCHANGED <<wrapperVars, startupVars, analyticsVars, now, uuid, emojis, userUpdateQueue,
                      isProcessingQueue, slackWrapper, drains, ticks, upstreamCalls, dropped>>

\* 03:45 and 05:45 of day 8
CleanupInstants == {8 * Day + 3 * HourMs + 45 * 60000, 8 * Day + 5 * HourMs + 45 * 60000}

\* one identifier in lower case and one in upper case
CleanupIds == {<<"u", "a">>, <<"U", "B">>}

NextCleanup ==
    \/ \E t \in CleanupInstants : Advance(t)
    \/ \E e \in CleanupIds : insertUser(e, Stored, 24)
    \/ \E e \in {<<"u", "a">>} : getUser(e)
    \/ \E e \in CleanupIds : purgeUserCache(e)
    \/ purgeAll
    \/ purgeExpiredItems
    \/ \E lucky \in BOOLEAN : lazyUserCleanup(lucky)
    \/ setSlackWrapper
    \/ processUserUpdateQueue
    \/ \E k \in DOMAIN drains : DrainFetched(k, Fetched)
    \/ \E k \in DOMAIN drains : DrainInserted(k)
    \/ \E k \in DOMAIN drains, err \in FetchErrors : DrainFailed(k, err)

SpecCleanup == Init /\ [][NextCleanup]_vars

\* C40: a user row whose expiration is still in the future is removed only by
\* purgeUserCache or purgeAll: no step of getUser, purgeExpiredItems,
\* lazyUserCleanup or the refresh drain leaves the table without a row for its
\* userId; and lazyUserCleanup deletes only rows that expired more than seven
\* days ago, and only when the local hour is 3 or 4.
UnexpiredStays ==
    [][/\ (\E r \in users : r.expiration > now /\ SelectUser(users', r.userId) = {})
             => (purgeAll \/ \E e \in CleanupIds : purgeUserCache(e))
       /\ \A lucky \in BOOLEAN :
             lazyUserCleanup(lucky) =>
                \A r \in users \ users' :
                   r.expiration < now - 7 * Day /\ currentHour \in {3, 4}]_vars

\* the lazy cleanup has deleted a row and left one that is not expired
UnexpiredStaysWitness ==
    /\ ret.op = "lazyUserCleanup"
    /\ ret.changes > 0
    /\ \E r \in users : r.expiration > now
====
